---- MODULE Spec2Model ----
(***************************************************************************)
(* Model of the invoice harvesting engine of PlaywrightemQT                *)
(* (src/app/utils/fakturator.py): the run coordinator Fakturator.run, the  *)
(* date range planner, order discovery and the order processor with its    *)
(* download strategy chain.  The browser, the portal and the file system   *)
(* are the environment: every call that can fail is a nondeterministic     *)
(* choice among the outcomes the code distinguishes.                       *)
(***************************************************************************)
EXTENDS Integers, Sequences, FiniteSets, TLC

VARIABLES
    installed,      \* environment: status["playwright_installed"]
    anyBrowser,     \* environment: any(status["browsers"].values())
    today,          \* environment: datetime.now() seen by the planner
    weeksToProcess, \* config["weeksToProcess"]
    dateFrom,       \* config["date_from"]: <<>> is None, <<y, m, d>> the text "y-m-d"
    dateTo,         \* config["date_to"]
    allRows,        \* environment: the rows of the order table where the discovery
                    \* specification draws them (<<>> elsewhere)
    pc,             \* position of the control flow
    stats,          \* self.stats
    processed,      \* self.processed_order_numbers
    launched,       \* p.chromium.launch returned a browser
    launchAttempts, \* number of calls of p.chromium.launch
    closeCount,     \* number of completed or attempted calls of browser.close
    outcome,        \* how run() left: "none", "returned", "raised"
    loginClick,     \* what _try_action gave for the login button: "none", "true", "false", "raise"
    dateRanges,     \* date_ranges of run / result of _calculate_date_ranges
    rangeIdx,       \* 1-based index of the date range in work (i + 1)
    weeksOrders,    \* weeks_orders of _process_date_range: order numbers in table order
    orderIdx,       \* 1-based index into weeksOrders
    nDocs,          \* len(document_rows) of the order in work
    docIdx,         \* 1-based index of the next document row (j + 1)
    pobrano,        \* pobrano_dokumenty
    docErrors,      \* document_processing_errors
    isTimedOut,     \* is_timed_out
    anyCounted,     \* history: a download of the order in work was counted
    attempts,       \* history: per order number, processing attempts started in this run
    lastExit,       \* history: how _process_order was left the last time
    rowLog,         \* history: what the last document row step did
    progress,       \* history: the values passed to progress_callback
    rangeNav,       \* what _go_to_invoice_list returned to _process_date_range: "none" when
                    \* no call is in flight, "true", "false"
    tableRead,      \* history: the table read of the date range in work: "none", "read",
                    \* "failed" (the second read raised), "reloadRaised"
    finished,       \* host: the values delivered with finished_signal
    runNo,          \* number of calls of run on this engine
    baseExists,     \* file system: os.path.exists(downloadBasePath)
    fsItems,        \* file system: the entries of downloadBasePath
    keepWeeks,      \* config["cleaning"]["keepWeeks"]
    confirm,        \* the argument confirm of clean_old_invoices
    itemsToDelete,  \* items_to_delete of clean_old_invoices
    cleanStats,     \* stats of clean_old_invoices
    deletePos,      \* 1-based index of the next item of the deletion loop
    manifestShown,  \* history: the list of the items to delete was written to the log
    answered,       \* history: what input() gave, <<>> when it was not called
    removed,        \* history: the entries clean_old_invoices removed
    sessionCall,    \* a call of a session driver function on its own: the function and
                    \* what the page does to each of its steps
    sessionRet,     \* how that call ended
    dictHeap,       \* memory: the nested dict objects of DEFAULT_CONFIG, by the key
                    \* under which the class body created them
    engineConfigs,  \* memory: self.config of every engine constructed so far; a nested
                    \* key holds a reference into dictHeap
    window,         \* host: which window drives the harvest: "fakturator"
                    \* (FakturatorWindow), "main" (MainWindow), "none" where no window is modelled
    startEnabled,   \* host: start_button.isEnabled()
    stopEnabled,    \* host: stop_button.isEnabled()
    threadRef,      \* host: self.fakturator_thread: 0 is None (or unset), w the worker workers[w]
    workers,        \* host: the FakturatorThread objects created so far
    posted,         \* host: the signals of the worker threads queued for the window, in
                    \* the order of their emission: "finished" (finished_signal of a
                    \* FakturatorThread), "status" (status_signal of a PlaywrightStatusThread)
    statusPending,  \* host: a PlaywrightStatusThread is running
    weeksSpinbox,   \* host: weeks_spinbox.value()
    saveCombo,      \* host: save_config_combo.currentText() == "Tak"
    settingsWeeks   \* config/settings.json: the scenario value "weeks_to_process"

vars == <<installed, anyBrowser, today, weeksToProcess, dateFrom, dateTo, allRows, pc, stats,
          processed, launched, launchAttempts, closeCount, outcome, loginClick,
          dateRanges, rangeIdx, weeksOrders, orderIdx, nDocs, docIdx, pobrano,
          docErrors, isTimedOut, anyCounted, attempts, lastExit, rowLog, progress,
          rangeNav, tableRead, finished, runNo,
          baseExists, fsItems, keepWeeks, confirm, itemsToDelete, cleanStats, deletePos,
          manifestShown, answered, removed, sessionCall, sessionRet,
          dictHeap, engineConfigs, window, startEnabled, stopEnabled, threadRef, workers,
          posted, statusPending, weeksSpinbox, saveCombo, settingsWeeks>>

----------------------------------------------------------------------------
(* Bounds of the model *)

\* largest weeksToProcess explored
MaxWeeks == 3
\* ordinal of the first calendar day explored as today (2024-03-03, a Sunday)
FirstDay == 738948
\* number of consecutive days explored as today (all seven weekdays)
NumDays == 7
\* largest weeksToProcess of a modelled run
MaxRunWeeks == 2
\* largest number of rows of the order table in one read
MaxRows == 2
\* largest number of document rows of one order
MaxDocRows == 3
\* largest number of calls of run on one engine
MaxRuns == 2
\* largest weeksToProcess for which the progress values are explored
MaxProgressWeeks == 45

----------------------------------------------------------------------------
(* Dates: a datetime is a record of the proleptic Gregorian ordinal of the   *)
(* day (datetime.toordinal) and the time of day.                             *)

DT(d, h, mi, s, us) == [day |-> d, h |-> h, mi |-> mi, s |-> s, us |-> us]

\* datetime.weekday(): Monday is 0, Sunday is 6; ordinal 1 is a Monday
Weekday(d) == (d + 6) % 7

\* dt - timedelta(days=n)
MinusDays(dt, n) == [dt EXCEPT !.day = dt.day - n]

\* dt + timedelta(days=n)
PlusDays(dt, n) == [dt EXCEPT !.day = dt.day + n]

\* dt.replace(hour=0, minute=0, second=0, microsecond=0)
DayStart(dt) == DT(dt.day, 0, 0, 0, 0)

\* dt.replace(hour=23, minute=59, second=59, microsecond=999999)
DayEnd(dt) == DT(dt.day, 23, 59, 59, 999999)

\* a <= b on datetimes
DtLeq(a, b) ==
    \/ a.day < b.day
    \/ /\ a.day = b.day
       /\ \/ a.h < b.h
          \/ /\ a.h = b.h
             /\ \/ a.mi < b.mi
                \/ /\ a.mi = b.mi
                   /\ \/ a.s < b.s
                      \/ a.s = b.s /\ a.us <= b.us

IsLeap(y) == (y % 4 = 0) /\ ((y % 100 # 0) \/ (y % 400 = 0))

DaysInMonth(y, m) ==
    IF m = 2 THEN (IF IsLeap(y) THEN 29 ELSE 28)
    ELSE IF m \in {4, 6, 9, 11} THEN 30 ELSE 31

RECURSIVE DaysBeforeMonth(_, _)
DaysBeforeMonth(y, m) ==
    IF m <= 1 THEN 0 ELSE DaysBeforeMonth(y, m - 1) + DaysInMonth(y, m - 1)

\* datetime.strptime(text, "%Y-%m-%d") succeeds
StrpOk(t) ==
    /\ Len(t) = 3
    /\ t[1] \in 1..9999
    /\ t[2] \in 1..12
    /\ t[3] \in 1..DaysInMonth(t[1], t[2])

\* datetime.strptime(text, "%Y-%m-%d") for a text that parses: midnight of that day
StrpTime(t) ==
    DT(365 * (t[1] - 1) + ((t[1] - 1) \div 4) - ((t[1] - 1) \div 100)
         + ((t[1] - 1) \div 400) + DaysBeforeMonth(t[1], t[2]) + t[3],
       0, 0, 0, 0)

----------------------------------------------------------------------------
(* Date Range Planner: Fakturator._calculate_date_ranges *)

\* the loop "while start_of_week.weekday() != 6: start_of_week -= timedelta(days=1)"
RECURSIVE BackToSunday(_)
BackToSunday(dt) ==
    IF Weekday(dt.day) # 6 THEN BackToSunday(MinusDays(dt, 1)) ELSE dt

\* the week loop with an end of week seven days after the start, not six
WeekRangeEightDays(now, weekOffset) ==
    LET startOfWeek ==
            BackToSunday(DayStart(MinusDays(now, Weekday(now.day) + 1 + 7 * weekOffset)))
    IN  [startDate |-> startOfWeek, endDate |-> DayEnd(PlusDays(startOfWeek, 7))]

\* one pass of the week loop for week_offset
WeekRange(now, weekOffset) ==
    LET startOfWeek ==
            BackToSunday(DayStart(MinusDays(now, Weekday(now.day) + 1 + 7 * weekOffset)))
    IN  [startDate |-> startOfWeek, endDate |-> DayEnd(PlusDays(startOfWeek, 6))]

\* the week loop: range(weeksToProcess)
WeekRanges(now, weeks) == [k \in 1..weeks |-> WeekRange(now, k - 1)]

\* _calculate_date_ranges returning no range where the explicit range fails
CalculateDateRangesNoFallback(now, from, to, weeks, mk) ==
    IF from # <<>> /\ to # <<>>
    THEN IF StrpOk(from) /\ StrpOk(to) /\ mk.explicit
         THEN [raised |-> FALSE,
               ranges |-> <<[startDate |-> DayStart(StrpTime(from)),
                             endDate |-> DayEnd(StrpTime(to))]>>]
         ELSE [raised |-> FALSE, ranges |-> <<>>]
    ELSE IF weeks >= 1 /\ ~mk.week
         THEN [raised |-> TRUE, ranges |-> <<>>]
         ELSE [raised |-> FALSE, ranges |-> WeekRanges(now, weeks)]

\* _calculate_date_ranges.  mk.explicit and mk.week say whether os.makedirs
\* succeeds for the folder of the explicit range and for the folders of the weeks.
\* The result is the list returned, or the exception leaving the function.
CalculateDateRanges(now, from, to, weeks, mk) ==
    IF from # <<>> /\ to # <<>> /\ StrpOk(from) /\ StrpOk(to) /\ mk.explicit
    THEN [raised |-> FALSE,
          ranges |-> <<[startDate |-> DayStart(StrpTime(from)),
                        endDate |-> DayEnd(StrpTime(to))]>>]
    ELSE IF weeks >= 1 /\ ~mk.week
         THEN [raised |-> TRUE, ranges |-> <<>>]
         ELSE [raised |-> FALSE, ranges |-> WeekRanges(now, weeks)]

----------------------------------------------------------------------------
(* Session Driver: Fakturator._try_action and Fakturator._go_to_invoice_list *)

\* the default max_retries of _try_action
DefaultMaxRetries == 3
\* max_retries passed by _go_to_invoice_list
ListMaxRetries == 5
\* DEFAULT_CONFIG["errorHandling"]["maxNetworkRetries"]
MaxNetworkRetries == 3

\* the loop of _try_action returning True where the last attempt has failed
RECURSIVE TryActionFromTrueAtEnd(_, _, _, _)
TryActionFromTrueAtEnd(acts, waits, maxRetries, attempt) ==
    IF attempt > maxRetries THEN [result |-> "false", calls |-> attempt - 1]
    ELSE IF acts[attempt] THEN [result |-> "true", calls |-> attempt]
    ELSE IF attempt = maxRetries THEN [result |-> "true", calls |-> attempt]
    ELSE IF ~waits[attempt] THEN [result |-> "raise", calls |-> attempt]
    ELSE TryActionFromTrueAtEnd(acts, waits, maxRetries, attempt + 1)

\* The loop of _try_action from attempt on.  acts[i] says whether the i-th call of
\* the action succeeds, waits[i] whether the wait after the i-th failure succeeds.
RECURSIVE TryActionFrom(_, _, _, _)
TryActionFrom(acts, waits, maxRetries, attempt) ==
    IF attempt > maxRetries THEN [result |-> "false", calls |-> attempt - 1]
    ELSE IF acts[attempt] THEN [result |-> "true", calls |-> attempt]
    ELSE IF attempt = maxRetries THEN [result |-> "false", calls |-> attempt]
    ELSE IF ~waits[attempt] THEN [result |-> "raise", calls |-> attempt]
    ELSE TryActionFrom(acts, waits, maxRetries, attempt + 1)

\* _try_action(action, description, page, max_retries)
TryAction(acts, waits, maxRetries) == TryActionFrom(acts, waits, maxRetries, 1)

\* what _try_action can give with the default max_retries
TryResults ==
    {TryAction(a, w, DefaultMaxRetries).result :
        a \in [1..DefaultMaxRetries -> BOOLEAN], w \in [1..DefaultMaxRetries -> BOOLEAN]}

\* what _try_action can give inside _go_to_invoice_list
ListTryResults ==
    {TryAction(a, w, ListMaxRetries).result :
        a \in [1..ListMaxRetries -> BOOLEAN], w \in [1..ListMaxRetries -> BOOLEAN]}

\* What one round of the network_retry loop meets: the result of the click
\* ("false", "raise"), or after a successful click: "table" (rows seen at once),
\* "reloadRaise" (page.reload or the wait after it raises), "tableAfterReload",
\* "noTable" (rows seen neither before nor after the reload).
RoundOutcomes ==
    {c \in ListTryResults : c # "true"}
        \cup {"table", "reloadRaise", "tableAfterReload", "noTable"}

\* the network_retry loop of _go_to_invoice_list returning True where the table did
\* not show after the reload
RECURSIVE GoToInvoiceListFromGoOn(_, _)
GoToInvoiceListFromGoOn(rounds, r) ==
    IF r > MaxNetworkRetries THEN [result |-> FALSE, rounds |-> r]
    ELSE LET o == rounds[r + 1] IN
         IF o \in {"table", "tableAfterReload", "noTable"}
         THEN [result |-> TRUE, rounds |-> r + 1]
         ELSE IF o = "false" THEN GoToInvoiceListFromGoOn(rounds, r + 1)
         ELSE IF r = MaxNetworkRetries THEN [result |-> FALSE, rounds |-> r + 1]
              ELSE GoToInvoiceListFromGoOn(rounds, r + 1)

\* the network_retry loop of _go_to_invoice_list from round r on (r counts from 0)
RECURSIVE GoToInvoiceListFrom(_, _)
GoToInvoiceListFrom(rounds, r) ==
    IF r > MaxNetworkRetries THEN [result |-> FALSE, rounds |-> r]
    ELSE LET o == rounds[r + 1] IN
         IF o \in {"table", "tableAfterReload"} THEN [result |-> TRUE, rounds |-> r + 1]
         ELSE IF o = "noTable" THEN [result |-> FALSE, rounds |-> r + 1]
         ELSE IF o = "false" THEN GoToInvoiceListFrom(rounds, r + 1)
         ELSE \* "raise", "reloadRaise": the handler "except Exception" of the loop
              IF r = MaxNetworkRetries THEN [result |-> FALSE, rounds |-> r + 1]
              ELSE GoToInvoiceListFrom(rounds, r + 1)

\* _go_to_invoice_list(page)
GoToInvoiceList(rounds) == GoToInvoiceListFrom(rounds, 0)

\* what _go_to_invoice_list can return
ListResults ==
    {GoToInvoiceList(r).result : r \in [1..MaxNetworkRetries + 1 -> RoundOutcomes]}

----------------------------------------------------------------------------
(* Order Processor: Fakturator._process_order, one document row *)

\* number of row-level errors after which the document loop is left
MaxRowErrors == 3

\* What the code can see of a persisted file: empty (os.path.getsize is 0), sig
\* (the first four bytes are %PDF), marker (the text "prywatności" stands in the
\* first 1024 bytes, which is all the code reads and decodes).
Files ==
    {[empty |-> TRUE, sig |-> FALSE, marker |-> FALSE],
     [empty |-> FALSE, sig |-> FALSE, marker |-> FALSE],
     [empty |-> FALSE, sig |-> TRUE, marker |-> FALSE],
     [empty |-> FALSE, sig |-> TRUE, marker |-> TRUE]}

\* first_bytes.startswith(b'%PDF')
IsPdf(f) == f.sig

\* 'polityka prywatności' in text_sample or 'prywatności' in text_sample,
\* text_sample being the first 1024 bytes decoded and lowered
LooksLikePrivacyPolicy(f) == f.marker

\* What the environment does to one document row:
\*   text:  "raise" (reading the row raises), "faktura", "other"
\*   primary: "raise" (click, download event or save_as raises), "nodownload"
\*          (the download value is empty), "missing" (save_as returned and the file
\*          does not exist), "saved" (file1 stands at save_path)
\*   prep:  "renameRaise" (os.rename raises), "clickRaise" (the forced click or a
\*          wait around it raises), "ok"
\*   secondary: "noTab" (no new page, or an exception before a download starts),
\*          "notPdfUrl" (a page whose url is not PDF-like), "dlRaise" (the download
\*          or save_as raises), "saved" (file2 stands at save_path)
\*   tertiary: "evalRaise" (page.evaluate raises), "noUrl" (no API link), "noData"
\*          (the fetch gave no base64 data), "writeRaise" (decoding or writing
\*          raises), "saved" (file3 stands at save_path)
RowOutcomes ==
    [text : {"raise", "faktura", "other"},
     primary : {"raise", "nodownload", "missing", "saved"},
     file1 : Files,
     prep : {"renameRaise", "clickRaise", "ok"},
     secondary : {"noTab", "notPdfUrl", "dlRaise", "saved"},
     file2 : Files,
     tertiary : {"evalRaise", "noUrl", "noData", "writeRaise", "saved"},
     file3 : Files]

\* the result of a document row that did nothing
NoRow ==
    [dl |-> 0, pobrano |-> FALSE, err |-> 0, cont |-> FALSE, renamed |-> FALSE,
     attempted |-> <<>>, persisted |-> <<>>, counted |-> <<>>]

\* the tertiary strategy setting pobrano_dokumenty without counting the download
TertiaryNoCount(o, r) ==
    LET a == [r EXCEPT !.attempted = Append(@, "tertiary")] IN
    IF o.tertiary \in {"evalRaise", "writeRaise"} THEN [a EXCEPT !.err = 1]
    ELSE IF o.tertiary \in {"noUrl", "noData"} THEN a
    ELSE [a EXCEPT !.pobrano = TRUE,
                   !.persisted = Append(@, [by |-> "tertiary", file |-> o.file3])]

\* The tertiary strategy (fetch through the API), entered with the result r so far.
Tertiary(o, r) ==
    LET a == [r EXCEPT !.attempted = Append(@, "tertiary")] IN
    IF o.tertiary \in {"evalRaise", "writeRaise"} THEN [a EXCEPT !.err = 1]
    ELSE IF o.tertiary \in {"noUrl", "noData"} THEN a
    ELSE [a EXCEPT !.dl = @ + 1,
                   !.pobrano = TRUE,
                   !.persisted = Append(@, [by |-> "tertiary", file |-> o.file3]),
                   !.counted = Append(@, [by |-> "tertiary", file |-> o.file3])]

\* The secondary strategy (new tab) and what follows it, entered after the rename.
Secondary(o, r) ==
    LET a == [r EXCEPT !.attempted = Append(@, "secondary")] IN
    IF o.prep = "clickRaise" THEN [a EXCEPT !.err = 1]
    ELSE IF o.secondary = "saved"
         THEN LET b == [a EXCEPT !.dl = @ + 1,
                                 !.pobrano = TRUE,
                                 !.persisted = Append(@, [by |-> "secondary", file |-> o.file2]),
                                 !.counted = Append(@, [by |-> "secondary", file |-> o.file2])]
              IN  \* if not os.path.exists(save_path) or os.path.getsize(save_path) == 0
                  IF o.file2.empty THEN Tertiary(o, b) ELSE b
         ELSE Tertiary(o, a)

\* The body of the document loop for one row (the timeout check and the check of
\* the error count excluded).  dl: the increase of downloadedInvoices, pobrano:
\* pobrano_dokumenty was set, err: the increase of document_processing_errors,
\* cont: the row was left by "continue"; attempted, persisted, counted, renamed
\* record which strategies ran, which files they wrote, which were counted and
\* whether the primary file was renamed.
ProcessRow(o) ==
    IF o.text = "raise" THEN [NoRow EXCEPT !.err = 1, !.cont = TRUE]
    ELSE IF o.text = "other" THEN NoRow
    ELSE LET a == [NoRow EXCEPT !.attempted = <<"primary">>] IN
         IF o.primary \in {"raise", "nodownload"} THEN [a EXCEPT !.err = 1]
         ELSE IF o.primary = "missing" THEN a
         ELSE LET b == [a EXCEPT !.persisted = <<[by |-> "primary", file |-> o.file1]>>] IN
              IF ~IsPdf(o.file1) THEN b
              ELSE IF ~LooksLikePrivacyPolicy(o.file1)
                   THEN [b EXCEPT !.dl = 1,
                                  !.counted = <<[by |-> "primary", file |-> o.file1]>>]
                   ELSE IF o.prep = "renameRaise" THEN [b EXCEPT !.err = 1]
                        ELSE Secondary(o, [b EXCEPT !.renamed = TRUE])

\* every result the body of the document loop can have
RowResults == {ProcessRow(o) : o \in RowOutcomes}

----------------------------------------------------------------------------
(* Order Processor: Fakturator._process_order up to the document loop *)

\* What the environment does between the row click and the document loop:
\*   click, docs: what _try_action gives for the row click and the "Dokumenty" click
\*   t1, t2, t3: what check_timeout() gives at its three calls, if called
\*   wait1, wait2: whether the waits after the two clicks return
\*   n: len(document_rows) after the listing (0 also when the listing raised)
OpenOutcomes ==
    [click : TryResults, t1 : BOOLEAN, wait1 : BOOLEAN, docs : TryResults,
     t2 : BOOLEAN, wait2 : BOOLEAN, n : 0..MaxDocRows, t3 : BOOLEAN]

\* _process_order from the row click to the start of the document loop.
\* exit: "rows" (the document loop starts), "returned" (return), "raised" (an
\* exception leaves _process_order); navBack: _go_to_invoice_list was called
\* before leaving; timedOut: is_timed_out.
OpenOrder(e) ==
    IF e.click = "raise"
    THEN [exit |-> "raised", navBack |-> FALSE, timedOut |-> FALSE, n |-> 0]
    ELSE IF e.click = "false"
    THEN [exit |-> "returned", navBack |-> TRUE, timedOut |-> FALSE, n |-> 0]
    ELSE IF e.t1
    THEN [exit |-> "returned", navBack |-> TRUE, timedOut |-> TRUE, n |-> 0]
    ELSE IF ~e.wait1 \/ e.docs = "raise"
    THEN [exit |-> "raised", navBack |-> FALSE, timedOut |-> FALSE, n |-> 0]
    ELSE IF e.docs = "false"
    THEN [exit |-> "returned", navBack |-> TRUE, timedOut |-> FALSE, n |-> 0]
    ELSE IF e.t2
    THEN [exit |-> "returned", navBack |-> TRUE, timedOut |-> TRUE, n |-> 0]
    ELSE IF ~e.wait2
    THEN [exit |-> "raised", navBack |-> FALSE, timedOut |-> FALSE, n |-> 0]
    ELSE IF e.n = 0
    THEN [exit |-> "returned", navBack |-> TRUE, timedOut |-> FALSE, n |-> 0]
    ELSE IF e.t3
    THEN [exit |-> "returned", navBack |-> TRUE, timedOut |-> TRUE, n |-> 0]
    ELSE [exit |-> "rows", navBack |-> FALSE, timedOut |-> FALSE, n |-> e.n]

\* every way _process_order can reach or miss the document loop
OpenResults == {OpenOrder(e) : e \in OpenOutcomes}

----------------------------------------------------------------------------
(* Order Discovery: the table scan of Fakturator._process_date_range *)

\* the order numbers of the portal ("ZS/<digits>/<digits>/UR")
Orders == {"ZS/1/1/UR", "ZS/2/2/UR"}

\* The token after "Data:" in the first cell, <<day, month, year>>; <<>> stands for
\* a cell with no such token.
RowDates == {<<5, 3, 2024>>, <<28, 2, 2024>>}

\* A table row: cells (the row is readable and has at least two cells), date (the
\* date token of the first cell), order (the order number token of the second
\* cell, "" when there is none).  <<31, 2, 2024>> matches the pattern of the date
\* token and is no date.
TableRows ==
    [cells : {TRUE}, date : RowDates, order : Orders]
        \cup {[cells |-> FALSE, date |-> <<5, 3, 2024>>, order |-> "ZS/1/1/UR"],
              [cells |-> TRUE, date |-> <<>>, order |-> "ZS/1/1/UR"],
              [cells |-> TRUE, date |-> <<31, 2, 2024>>, order |-> "ZS/1/1/UR"],
              [cells |-> TRUE, date |-> <<5, 3, 2024>>, order |-> ""]}

\* the tables of at most n rows
RECURSIVE TablesUpTo(_)
TablesUpTo(n) ==
    IF n = 0 THEN {<<>>}
    ELSE LET shorter == TablesUpTo(n - 1) IN
         shorter \cup {Append(t, r) : t \in {u \in shorter : Len(u) = n - 1}, r \in TableRows}

\* _is_date_in_range(date_text, start_date, end_date)
IsDateInRange(dateText, startDate, endDate) ==
    IF Len(dateText) # 3 THEN FALSE
    ELSE LET formatted == <<dateText[3], dateText[2], dateText[1]>> IN
         IF ~StrpOk(formatted) THEN FALSE
         ELSE LET itemDate == [StrpTime(formatted) EXCEPT !.h = 12] IN
              DtLeq(startDate, itemDate) /\ DtLeq(itemDate, endDate)

\* the loop over all_rows taking every row with a date of the range, with or
\* without an order number
RECURSIVE DiscoverAnyOrder(_, _)
DiscoverAnyOrder(rows, range) ==
    IF rows = <<>> THEN <<>>
    ELSE LET row == Head(rows) IN
         IF /\ row.cells
            /\ row.date # <<>>
            /\ IsDateInRange(row.date, range.startDate, range.endDate)
         THEN <<row.order>> \o DiscoverAnyOrder(Tail(rows), range)
         ELSE DiscoverAnyOrder(Tail(rows), range)

\* the loop over all_rows: weeks_orders, as order numbers in table order
RECURSIVE Discover(_, _)
Discover(rows, range) ==
    IF rows = <<>> THEN <<>>
    ELSE LET row == Head(rows) IN
         IF /\ row.cells
            /\ row.date # <<>>
            /\ row.order # ""
            /\ IsDateInRange(row.date, range.startDate, range.endDate)
         THEN <<row.order>> \o Discover(Tail(rows), range)
         ELSE Discover(Tail(rows), range)

----------------------------------------------------------------------------
(* Floating point: the value int(5 + 90 * ((i + 1) / total_date_ranges)) of run.  *)
(* A positive float is [m, e]: the significand m as a sequence of limbs of        *)
(* LimbBits bits, least significant first, and the exponent e of its lowest bit;  *)
(* every operation gives the exact result rounded to Precision significant bits,  *)
(* ties to even, as Python's float (IEEE 754 binary64) does.                       *)

\* the bits of the significand of a float
Precision == 53
\* the bits of a limb
LimbBits == 9
\* the limbs computed after the binary point by the division
FracLimbs == 8

RECURSIVE Pow2(_)
Pow2(n) == IF n = 0 THEN 1 ELSE 2 * Pow2(n - 1)

Base == Pow2(LimbBits)

\* the number of bits of a natural number
RECURSIVE BitLen(_)
BitLen(n) == IF n = 0 THEN 0 ELSE 1 + BitLen(n \div 2)

\* the limbs of a natural number, least significant first
RECURSIVE NatLimbs(_)
NatLimbs(n) == IF n = 0 THEN <<>> ELSE <<n % Base>> \o NatLimbs(n \div Base)

\* the natural number of a sequence of limbs
RECURSIVE LimbsNat(_)
LimbsNat(b) == IF b = <<>> THEN 0 ELSE Head(b) + Base * LimbsNat(Tail(b))

\* n zero limbs
Zeros(n) == [i \in 1..n |-> 0]

\* the limbs of b * k + carry for a small k
RECURSIVE MulLimbs(_, _, _)
MulLimbs(b, k, carry) ==
    IF b = <<>> THEN NatLimbs(carry)
    ELSE LET v == Head(b) * k + carry IN <<v % Base>> \o MulLimbs(Tail(b), k, v \div Base)

\* the limbs of a + b + carry
RECURSIVE AddLimbs(_, _, _)
AddLimbs(a, b, carry) ==
    IF a = <<>> /\ b = <<>> THEN NatLimbs(carry)
    ELSE LET x == IF a = <<>> THEN 0 ELSE Head(a)
             y == IF b = <<>> THEN 0 ELSE Head(b)
             v == x + y + carry
         IN  <<v % Base>> \o AddLimbs(IF a = <<>> THEN <<>> ELSE Tail(a),
                                      IF b = <<>> THEN <<>> ELSE Tail(b), v \div Base)

\* b without its high zero limbs
RECURSIVE Significant(_)
Significant(b) ==
    IF b # <<>> /\ b[Len(b)] = 0 THEN Significant(SubSeq(b, 1, Len(b) - 1)) ELSE b

\* the number of bits of a sequence of limbs
LimbsBitLen(b) ==
    LET s == Significant(b) IN
    IF s = <<>> THEN 0 ELSE LimbBits * (Len(s) - 1) + BitLen(s[Len(s)])

\* The float nearest to the exact value (b + f) * 2^e, ties to even, where f is 0
\* or, if inexact, some fraction strictly between 0 and 1.  The limbs are shifted
\* left until the bits to drop fill whole limbs.
RoundLimbs(b, e, inexact) ==
    LET len == LimbsBitLen(b) IN
    IF len <= Precision THEN [m |-> Significant(b), e |-> e]
    ELSE LET t == (LimbBits - ((len - Precision) % LimbBits)) % LimbBits
             d == (len + t - Precision) \div LimbBits
             s == Significant(MulLimbs(b, Pow2(t), 0))
             kept == SubSeq(s, d + 1, Len(s))
             half == Base \div 2
             sticky == inexact \/ s[d] % half # 0 \/ \E i \in 1..(d - 1) : s[i] # 0
             up == s[d] >= half /\ (sticky \/ kept[1] % 2 = 1)
         IN  [m |-> IF up THEN AddLimbs(kept, <<1>>, 0) ELSE kept,
              e |-> e - t + LimbBits * d]

\* The long division of a by n in limbs: r is what is left of a at the limb pos
\* after the binary point, b the limbs found so far.  It ends when nothing is
\* left or FracLimbs limbs follow the point (more than Precision significant
\* bits as long as n < 2^13).
RECURSIVE DivFrom(_, _, _, _)
DivFrom(r, n, b, pos) ==
    LET limbs == <<r \div n>> \o b
        rest == r % n
    IN  IF rest = 0 \/ pos = FracLimbs
        THEN RoundLimbs(limbs, -(LimbBits * pos), rest # 0)
        ELSE DivFrom(rest * Base, n, limbs, pos + 1)

\* a / n for integers 1 <= a <= n
FloatDiv(a, n) == DivFrom(a, n, <<>>, 0)

\* k * x for a small integer k
FloatMul(k, x) == RoundLimbs(MulLimbs(x.m, k, 0), x.e, FALSE)

\* k + x for a small integer k
FloatAdd(k, x) ==
    IF x.e <= 0
    THEN LET q == (-x.e) \div LimbBits
             t == (-x.e) % LimbBits
         IN  RoundLimbs(AddLimbs(Zeros(q) \o NatLimbs(k * Pow2(t)), x.m, 0), x.e, FALSE)
    ELSE RoundLimbs(AddLimbs(NatLimbs(k), MulLimbs(x.m, Pow2(x.e), 0), 0), 0, FALSE)

\* int(x) for a float below 2^21
FloatInt(x) ==
    IF x.e <= 0
    THEN LET q == (-x.e) \div LimbBits
             t == (-x.e) % LimbBits
         IN  LimbsNat(SubSeq(x.m, q + 1, Len(x.m))) \div Pow2(t)
    ELSE LimbsNat(x.m) * Pow2(x.e)

\* int(5 + 90 * ((i + 1) / total)) for every total explored and every index i
ProgressValues ==
    {[total |-> c[1], i |-> c[2],
      value |-> FloatInt(FloatAdd(5, FloatMul(90, FloatDiv(c[2] + 1, c[1]))))] :
        c \in {d \in (1..MaxProgressWeeks) \X (0..(MaxProgressWeeks - 1)) : d[2] < d[1]}}

----------------------------------------------------------------------------
(* The run: Fakturator.run and what it calls, step by step *)

\* check_playwright_availability() of playwright_manager.py, for the installation
\* status the environment has.  Fakturator.run does not call it.
CheckPlaywrightAvailability(playwrightInstalled, someBrowser) ==
    playwrightInstalled /\ someBrowser

ZeroStats == [processedOrders |-> 0, downloadedInvoices |-> 0, errors |-> 0]

NoExit == [order |-> "", kind |-> "none", navBack |-> FALSE, timedOut |-> FALSE]

\* the handler "except Exception as e" of run
Excepted(st) == [st EXCEPT !.errors = @ + 1]

\* the value reported after the range with index i (from 0) of total
RangeProgress(i, total) ==
    (CHOOSE v \in ProgressValues : v.total = total /\ v.i = i).value

envVars == <<installed, anyBrowser, today, weeksToProcess, dateFrom, dateTo, allRows>>
browserVars == <<launched, launchAttempts, closeCount>>
rangeVars == <<dateRanges, rangeIdx>>
tableVars == <<weeksOrders, orderIdx>>
docVars == <<nDocs, docIdx, pobrano, docErrors, isTimedOut, anyCounted>>
hostVars == <<finished, runNo>>
sessionVars == <<sessionCall, sessionRet>>
configVars == <<dictHeap, engineConfigs>>
windowVars == <<window, startEnabled, stopEnabled, threadRef, workers, posted,
                statusPending, weeksSpinbox, saveCombo, settingsWeeks>>
cleanerVars == <<baseExists, fsItems, keepWeeks, confirm, itemsToDelete, cleanStats,
                 deletePos, manifestShown, answered, removed>>

\* DEFAULT_CONFIG["cleaning"]["keepWeeks"]
DefaultKeepWeeks == 12

\* stats of clean_old_invoices at its start
ZeroCleanStats ==
    [folders_to_delete |-> 0, files_to_delete |-> 0, folders_deleted |-> 0,
     files_deleted |-> 0]

\* the cleaner variables of an engine that does not clean
NoCleaning ==
    /\ baseExists = TRUE
    /\ fsItems = {}
    /\ keepWeeks = DefaultKeepWeeks
    /\ confirm = TRUE
    /\ itemsToDelete = <<>>
    /\ cleanStats = ZeroCleanStats
    /\ deletePos = 0
    /\ manifestShown = FALSE
    /\ answered = <<>>
    /\ removed = {}

\* DEFAULT_CONFIG, lines 43-78: the nested dicts (one key of each) and
\* weeksToProcess
DefaultNested ==
    [timeouts |-> [page |-> 10000],
     errorHandling |-> [maxNetworkRetries |-> 3],
     cleaning |-> [keepWeeks |-> 12]]

\* the keys of DEFAULT_CONFIG whose values are dicts
Sections == {"timeouts", "errorHandling", "cleaning"}

\* DEFAULT_CONFIG itself: a nested key holds the reference of its dict
DefaultConfig ==
    [weeksToProcess |-> 2, timeouts |-> "timeouts", errorHandling |-> "errorHandling",
     cleaning |-> "cleaning"]

\* the memory when the class has been defined and no engine constructed
NoEngines == dictHeap = DefaultNested /\ engineConfigs = <<>>

\* a value of settings.json or of a configuration: json keeps the type
IntValue(n) == [type |-> "int", val |-> n]

\* no window is modelled
NoWindow ==
    /\ window = "none"
    /\ startEnabled = FALSE
    /\ stopEnabled = FALSE
    /\ threadRef = 0
    /\ workers = <<>>
    /\ posted = <<>>
    /\ statusPending = FALSE
    /\ weeksSpinbox = 2
    /\ saveCombo = FALSE
    /\ settingsWeeks = IntValue(2)

\* no session driver function is called on its own
NoCall == [fn |-> "none"]
NoRet == [result |-> "none", calls |-> 0]
NoSession == sessionCall = NoCall /\ sessionRet = NoRet

\* the state of an engine constructed and not yet run
Idle ==
    /\ stats = ZeroStats
    /\ processed = {}
    /\ launched = FALSE
    /\ launchAttempts = 0
    /\ closeCount = 0
    /\ outcome = "none"
    /\ loginClick = "none"
    /\ dateRanges = <<>>
    /\ rangeIdx = 0
    /\ weeksOrders = <<>>
    /\ orderIdx = 0
    /\ nDocs = 0
    /\ docIdx = 1
    /\ pobrano = FALSE
    /\ docErrors = 0
    /\ isTimedOut = FALSE
    /\ anyCounted = FALSE
    /\ attempts = [o \in Orders |-> 0]
    /\ lastExit = NoExit
    /\ rowLog = NoRow
    /\ progress = <<>>
    /\ rangeNav = "none"
    /\ tableRead = "none"
    /\ finished = <<>>
    /\ runNo = 0

Init ==
    /\ installed \in BOOLEAN
    /\ anyBrowser \in BOOLEAN
    /\ today = DT(FirstDay + 7, 10, 30, 0, 0)
    /\ weeksToProcess \in 1..MaxRunWeeks
    /\ dateFrom = <<>>
    /\ dateTo = <<>>
    /\ pc = "start"
    /\ allRows = <<>>
    /\ NoEngines
    /\ Idle
    /\ NoSession
    /\ NoWindow
    /\ NoCleaning

\* run, lines 252-278: the statistics are reset, playwright is started, the
\* browser launched, context and page created.  None of it is inside the try.
StartRun ==
    /\ pc = "start"
    /\ stats' = ZeroStats
    /\ runNo' = runNo + 1
    /\ \E fail \in {"none", "playwright", "launch", "context"} :
          /\ ~installed => fail = "playwright"
          /\ ~anyBrowser => fail \in {"playwright", "launch"}
          /\ launchAttempts' = IF fail = "playwright" THEN 0 ELSE 1
          /\ launched' = (fail \in {"none", "context"})
          /\ pc' = IF fail = "none" THEN "login" ELSE "done"
          /\ outcome' = IF fail = "none" THEN "none" ELSE "raised"
    /\ UNCHANGED <<cleanerVars, finished, rangeNav, tableRead, sessionVars, configVars, windowVars, envVars, processed, closeCount, loginClick, rangeVars, tableVars,
                   docVars, attempts, lastExit, rowLog, progress>>

\* run, lines 281-296: the login form and the login button
Login ==
    /\ pc = "login"
    /\ \E form \in BOOLEAN, click \in TryResults, wait \in BOOLEAN :
          /\ loginClick' = IF form THEN click ELSE "none"
          /\ IF ~form \/ click = "raise" \/ ~wait
             THEN stats' = Excepted(stats) /\ pc' = "close"
             ELSE stats' = stats /\ pc' = "plan"
    /\ UNCHANGED <<cleanerVars, hostVars, rangeNav, tableRead, sessionVars, configVars, windowVars, envVars, processed, browserVars, outcome, rangeVars, tableVars,
                   docVars, attempts, lastExit, rowLog, progress>>

\* run, lines 298-308: the invoice list (_go_to_invoice_list does not raise and
\* its result is dropped), the date ranges, the first progress value
Plan ==
    /\ pc = "plan"
    /\ \E mk \in [explicit : BOOLEAN, week : BOOLEAN] :
          LET r == CalculateDateRanges(today, dateFrom, dateTo, weeksToProcess, mk) IN
          IF r.raised
          THEN /\ stats' = Excepted(stats)
               /\ pc' = "close"
               /\ UNCHANGED <<rangeVars, progress>>
          ELSE /\ stats' = stats
               /\ pc' = "range"
               /\ dateRanges' = r.ranges
               /\ rangeIdx' = 1
               /\ progress' = Append(progress, 5)
    /\ UNCHANGED <<cleanerVars, hostVars, rangeNav, tableRead, sessionVars, configVars, windowVars, envVars, processed, browserVars, outcome, loginClick, tableVars,
                   docVars, attempts, lastExit, rowLog>>

\* _process_date_range, lines 427-428: the call of _go_to_invoice_list, which does
\* not raise
RangeNav ==
    /\ pc = "range"
    /\ rangeIdx <= Len(dateRanges)
    /\ \E nav \in ListResults : rangeNav' = IF nav THEN "true" ELSE "false"
    /\ pc' = "table"
    /\ UNCHANGED <<cleanerVars, hostVars, tableRead, sessionVars, configVars, windowVars, envVars, stats, processed, browserVars, outcome,
                   loginClick, rangeVars, tableVars, docVars, attempts, lastExit, rowLog,
                   progress>>

\* _process_date_range, lines 428-489: the result of _go_to_invoice_list is not
\* kept, the table is read with its one reload and retry ("reloadRaise":
\* page.reload or the wait after it raises, "secondFail": the second read raises),
\* the rows are scanned
BeginRange ==
    /\ pc = "table"
    /\ rangeNav' = "none"
    /\ \E read \in {"ok", "retryOk", "reloadRaise", "secondFail"} :
          IF read = "reloadRaise"
          THEN /\ stats' = Excepted(stats)
               /\ pc' = "close"
               /\ tableRead' = "reloadRaised"
               /\ UNCHANGED tableVars
          ELSE /\ stats' = stats
               /\ tableRead' = IF read = "secondFail" THEN "failed" ELSE "read"
               /\ pc' = "order"
               /\ orderIdx' = 1
               /\ IF read = "secondFail"
                  THEN weeksOrders' = <<>>
                  ELSE \E found \in {Discover(rows, dateRanges[rangeIdx]) :
                                         rows \in TablesUpTo(MaxRows)} :
                          weeksOrders' = found
    /\ UNCHANGED <<cleanerVars, hostVars, sessionVars, configVars, windowVars, envVars, processed, browserVars, outcome, loginClick, rangeVars,
                   docVars, attempts, lastExit, rowLog, progress>>

\* self.processed_order_numbers.add(order_number) left out
MarkProcessedNever(seen, o) == seen

\* self.processed_order_numbers.add(order_number)
MarkProcessed(seen, o) == seen \cup {o}

\* _process_order, lines 495-509: the dedup gate
OrderGate ==
    /\ pc = "order"
    /\ orderIdx <= Len(weeksOrders)
    /\ LET o == weeksOrders[orderIdx] IN
       IF o \in processed
       THEN /\ lastExit' = [order |-> o, kind |-> "skipped", navBack |-> FALSE,
                                timedOut |-> FALSE]
            /\ orderIdx' = orderIdx + 1
            /\ UNCHANGED <<pc, processed, attempts>>
       ELSE /\ processed' = MarkProcessed(processed, o)
            /\ attempts' = [attempts EXCEPT ![o] = @ + 1]
            /\ pc' = "open"
            /\ lastExit' = NoExit
            /\ UNCHANGED orderIdx
    /\ UNCHANGED <<cleanerVars, hostVars, rangeNav, tableRead, sessionVars, configVars, windowVars, envVars, stats, browserVars, outcome, loginClick, rangeVars,
                   weeksOrders, docVars, rowLog, progress>>

\* _process_order, lines 521-596: the row click, the "Dokumenty" click, the listing
OpenStep ==
    /\ pc = "open"
    /\ \E r \in OpenResults :
          /\ nDocs' = IF r.exit = "rows" THEN r.n ELSE 0
          /\ UNCHANGED <<docIdx, pobrano, docErrors, isTimedOut, anyCounted>>
          /\ IF r.exit = "rows"
             THEN /\ pc' = "rows"
                  /\ UNCHANGED <<stats, orderIdx, lastExit>>
             ELSE /\ lastExit' = [order |-> weeksOrders[orderIdx], kind |-> r.exit,
                                  navBack |-> r.navBack, timedOut |-> r.timedOut]
                  /\ orderIdx' = orderIdx + 1
                  /\ IF r.exit = "raised"
                     THEN stats' = Excepted(stats) /\ pc' = "close"
                     ELSE stats' = stats /\ pc' = "order"
    /\ UNCHANGED <<cleanerVars, hostVars, rangeNav, tableRead, sessionVars, configVars, windowVars, envVars, processed, browserVars, outcome, loginClick, rangeVars,
                   weeksOrders, attempts, rowLog, progress>>

\* _process_order, lines 597-601: check_timeout() gives True at the head of the
\* document loop
RowTimeout ==
    /\ pc = "rows"
    /\ isTimedOut' = TRUE
    /\ pc' = "finish"
    /\ UNCHANGED <<cleanerVars, hostVars, rangeNav, tableRead, sessionVars, configVars, windowVars, envVars, stats, processed, browserVars, outcome, loginClick,
                   rangeVars, tableVars, nDocs, docIdx, pobrano, docErrors, anyCounted,
                   attempts, lastExit, rowLog, progress>>


\* one pass of the document loop in which a row error is added to stats["errors"] too
RowStepCountsError ==
    /\ pc = "rows"
    /\ \E r \in RowResults :
          /\ rowLog' = r
          /\ stats' = [stats EXCEPT !.downloadedInvoices = @ + r.dl, !.errors = @ + r.err]
          /\ pobrano' = (pobrano \/ r.pobrano)
          /\ anyCounted' = (anyCounted \/ r.dl > 0)
          /\ docErrors' = docErrors + r.err
          /\ docIdx' = docIdx + 1
          /\ pc' = IF (~r.cont /\ docErrors + r.err >= MaxRowErrors) \/ docIdx = nDocs
                   THEN "finish" ELSE "rows"
    /\ UNCHANGED <<cleanerVars, hostVars, rangeNav, tableRead, sessionVars, configVars, windowVars, envVars, processed,
                   browserVars, outcome, loginClick, rangeVars, tableVars, nDocs, isTimedOut,
                   attempts, lastExit, progress>>

\* _process_order, lines 597-810: one pass of the document loop, check_timeout()
\* giving False
RowStep ==
    /\ pc = "rows"
    /\ \E r \in RowResults :
          /\ rowLog' = r
          /\ stats' = [stats EXCEPT !.downloadedInvoices = @ + r.dl]
          /\ pobrano' = (pobrano \/ r.pobrano)
          /\ anyCounted' = (anyCounted \/ r.dl > 0)
          /\ docErrors' = docErrors + r.err
          /\ docIdx' = docIdx + 1
          /\ pc' = IF (~r.cont /\ docErrors + r.err >= MaxRowErrors) \/ docIdx = nDocs
                   THEN "finish" ELSE "rows"
    /\ UNCHANGED <<cleanerVars, hostVars, rangeNav, tableRead, sessionVars, configVars, windowVars, envVars, processed, browserVars, outcome, loginClick, rangeVars,
                   tableVars, nDocs, isTimedOut, attempts, lastExit, progress>>

\* _process_order, lines 812-821: the count of the order, the return to the list
FinishOrder ==
    /\ pc = "finish"
    /\ \E wait \in BOOLEAN :
          LET counted == IF pobrano THEN [stats EXCEPT !.processedOrders = @ + 1]
                         ELSE stats
              raised == (isTimedOut \/ docErrors >= MaxRowErrors) /\ ~wait
          IN  /\ lastExit' = [order |-> weeksOrders[orderIdx],
                               kind |-> IF raised THEN "raised" ELSE "returned",
                               navBack |-> TRUE, timedOut |-> isTimedOut]
              /\ stats' = IF raised THEN Excepted(counted) ELSE counted
              /\ pc' = IF raised THEN "close" ELSE "order"
    /\ orderIdx' = orderIdx + 1
    /\ rowLog' = NoRow
    /\ nDocs' = 0
    /\ docIdx' = 1
    /\ pobrano' = FALSE
    /\ docErrors' = 0
    /\ isTimedOut' = FALSE
    /\ anyCounted' = FALSE
    /\ UNCHANGED <<cleanerVars, hostVars, rangeNav, tableRead, sessionVars, configVars, windowVars, envVars, processed, browserVars, outcome, loginClick, rangeVars,
                   weeksOrders, attempts, progress>>

\* run, lines 312-315: the progress value after a date range
EndRange ==
    /\ pc = "order"
    /\ orderIdx > Len(weeksOrders)
    /\ progress' = Append(progress, RangeProgress(rangeIdx - 1, Len(dateRanges)))
    /\ rangeIdx' = rangeIdx + 1
    /\ pc' = "range"
    /\ tableRead' = "none"
    /\ UNCHANGED <<cleanerVars, hostVars, rangeNav, sessionVars, configVars, windowVars, envVars, stats, processed, browserVars, outcome, loginClick,
                   dateRanges, tableVars, docVars, attempts, lastExit, rowLog>>

\* run, lines 317-324: the summary and the last progress value
Summary ==
    /\ pc = "range"
    /\ rangeIdx > Len(dateRanges)
    /\ progress' = Append(progress, 100)
    /\ pc' = "close"
    /\ UNCHANGED <<cleanerVars, hostVars, rangeNav, tableRead, sessionVars, configVars, windowVars, envVars, stats, processed, browserVars, outcome, loginClick,
                   rangeVars, tableVars, docVars, attempts, lastExit, rowLog>>

\* run, lines 329-333: the finally clause and the return
Close ==
    /\ pc = "close"
    /\ closeCount' = closeCount + 1
    /\ \E closed \in BOOLEAN : outcome' = IF closed THEN "returned" ELSE "raised"
    /\ pc' = "done"
    /\ UNCHANGED <<cleanerVars, hostVars, rangeNav, tableRead, sessionVars, configVars, windowVars, envVars, stats, processed, launched, launchAttempts, loginClick,
                   rangeVars, tableVars, docVars, attempts, lastExit, rowLog, progress>>

\* FakturatorThread.run of both windows: download_invoices returned the statistics,
\* which finished_signal delivers, or raised, which only writes to the log
WorkerReturn ==
    /\ pc = "done"
    /\ finished' = IF outcome = "returned" THEN Append(finished, stats) ELSE finished
    /\ pc' = "joined"
    /\ UNCHANGED <<cleanerVars, runNo, rangeNav, tableRead, sessionVars, configVars, windowVars, envVars, stats, processed, browserVars,
                   outcome, loginClick, rangeVars, tableVars, docVars, attempts, lastExit,
                   rowLog, progress>>

Next ==
    \/ StartRun
    \/ Login
    \/ Plan
    \/ RangeNav
    \/ BeginRange
    \/ OrderGate
    \/ OpenStep
    \/ RowTimeout
    \/ RowStep
    \/ FinishOrder
    \/ EndRange
    \/ Summary
    \/ Close
    \/ WorkerReturn

Spec == Init /\ [][Next]_vars

----------------------------------------------------------------------------
(* The planner alone: _calculate_date_ranges on every explored configuration *)

\* the times of day explored for datetime.now()
Times == {<<0, 0, 0, 0>>, <<10, 30, 0, 0>>, <<23, 59, 59, 999999>>}

\* the texts explored for date_from and date_to: None, two dates, a text that
\* does not parse, a date of the year 999 ("0999-01-04")
DateTexts == {<<>>, <<2024, 2, 26>>, <<2024, 3, 8>>, <<2024, 2, 30>>, <<999, 1, 4>>}

PlannerInit ==
    /\ installed = TRUE
    /\ anyBrowser = TRUE
    /\ today \in {DT(FirstDay + d, t[1], t[2], t[3], t[4]) : d \in 0..(NumDays - 1), t \in Times}
    /\ weeksToProcess \in 1..MaxWeeks
    /\ dateFrom \in DateTexts
    /\ dateTo \in DateTexts
    /\ pc = "planner"
    /\ allRows = <<>>
    /\ NoEngines
    /\ Idle
    /\ NoSession
    /\ NoWindow
    /\ NoCleaning

\* one call of _calculate_date_ranges
PlanRanges ==
    /\ pc = "planner"
    /\ \E mk \in [explicit : BOOLEAN, week : BOOLEAN] :
          LET r == CalculateDateRanges(today, dateFrom, dateTo, weeksToProcess, mk) IN
          /\ pc' = IF r.raised THEN "plannerRaised" ELSE "planned"
          /\ dateRanges' = r.ranges
    /\ UNCHANGED <<cleanerVars, hostVars, rangeNav, tableRead, sessionVars, configVars, windowVars, envVars, stats, processed, browserVars, outcome, loginClick, rangeIdx,
                   tableVars, docVars, attempts, lastExit, rowLog, progress>>

PlannerNext == PlanRanges

SpecPlanner == PlannerInit /\ [][PlannerNext]_vars

----------------------------------------------------------------------------
(* The run on a portal whose order table shows no order of the explored ranges,  *)
(* for every weeksToProcess up to MaxProgressWeeks                               *)

ProgressInit ==
    /\ installed = TRUE
    /\ anyBrowser = TRUE
    /\ today = DT(FirstDay + 7, 10, 30, 0, 0)
    /\ weeksToProcess \in 1..MaxProgressWeeks
    /\ dateFrom = <<>>
    /\ dateTo = <<>>
    /\ pc = "start"
    /\ allRows = <<>>
    /\ NoEngines
    /\ Idle
    /\ NoSession
    /\ NoWindow
    /\ NoCleaning

\* _process_date_range for a table with no order of the range
EmptyRange == BeginRange /\ weeksOrders' = <<>>

ProgressNext ==
    \/ StartRun
    \/ Login
    \/ Plan
    \/ RangeNav
    \/ EmptyRange
    \/ EndRange
    \/ Summary
    \/ Close

SpecProgress == ProgressInit /\ [][ProgressNext]_vars

----------------------------------------------------------------------------
(* Several calls of run on one engine *)

TwoRunsInit ==
    /\ installed = TRUE
    /\ anyBrowser = TRUE
    /\ today = DT(FirstDay + 7, 10, 30, 0, 0)
    /\ weeksToProcess = 1
    /\ dateFrom = <<>>
    /\ dateTo = <<>>
    /\ pc = "start"
    /\ allRows = <<>>
    /\ NoEngines
    /\ Idle
    /\ NoSession
    /\ NoWindow
    /\ NoCleaning

\* run is called again on the engine whose run has ended: the attributes set by
\* __init__ are what the run before left, the locals of run are new
RunAgain ==
    /\ pc = "done"
    /\ runNo < MaxRuns
    /\ pc' = "start"
    /\ launched' = FALSE
    /\ launchAttempts' = 0
    /\ closeCount' = 0
    /\ outcome' = "none"
    /\ loginClick' = "none"
    /\ dateRanges' = <<>>
    /\ rangeIdx' = 0
    /\ weeksOrders' = <<>>
    /\ orderIdx' = 0
    /\ attempts' = [o \in Orders |-> 0]
    /\ lastExit' = NoExit
    /\ rowLog' = NoRow
    /\ progress' = <<>>
    /\ tableRead' = "none"
    /\ UNCHANGED <<cleanerVars, hostVars, rangeNav, sessionVars, configVars, windowVars, envVars, stats, processed, docVars>>

TwoRunsNext == Next \/ RunAgain

SpecTwoRuns == TwoRunsInit /\ [][TwoRunsNext]_vars

----------------------------------------------------------------------------
(* The run on a portal with one order whose documents page lists up to           *)
(* MaxLoopRows rows                                                              *)

\* the longest documents table of this run
MaxLoopRows == 4

DocLoopInit ==
    /\ installed = TRUE
    /\ anyBrowser = TRUE
    /\ today = DT(FirstDay + 7, 10, 30, 0, 0)
    /\ weeksToProcess = 1
    /\ dateFrom = <<>>
    /\ dateTo = <<>>
    /\ pc = "start"
    /\ allRows = <<>>
    /\ NoEngines
    /\ Idle
    /\ NoSession
    /\ NoWindow
    /\ NoCleaning

\* _process_date_range for a table whose one row of the range is the order
OneOrderRange == BeginRange /\ weeksOrders' = <<"ZS/1/1/UR">>

\* _process_order, lines 521-596, both clicks succeeding in time:
\* page.locator('table tbody tr').all() gives 1..MaxLoopRows rows
OpenLong ==
    /\ pc = "open"
    /\ \E n \in 1..MaxLoopRows : nDocs' = n
    /\ pc' = "rows"
    /\ UNCHANGED <<cleanerVars, hostVars, rangeNav, tableRead, sessionVars, configVars, windowVars, envVars, stats, processed,
                   browserVars, outcome, loginClick, rangeVars, tableVars, docIdx, pobrano,
                   docErrors, isTimedOut, anyCounted, attempts, lastExit, rowLog, progress>>

DocLoopNext ==
    \/ StartRun
    \/ Login
    \/ Plan
    \/ RangeNav
    \/ OneOrderRange
    \/ OrderGate
    \/ OpenLong
    \/ RowTimeout
    \/ RowStep
    \/ FinishOrder
    \/ EndRange
    \/ Summary
    \/ Close

SpecDocLoop == DocLoopInit /\ [][DocLoopNext]_vars

----------------------------------------------------------------------------
(* The session driver functions called on their own, on every page behaviour    *)

\* a call _try_action(action, description, page, max_retries): acts[i] says whether
\* the i-th call of the action succeeds, waits[i] whether the wait after its
\* failure returns
TryCalls ==
    [fn : {"tryAction"},
     acts : [1..ListMaxRetries -> BOOLEAN],
     waits : [1..ListMaxRetries -> BOOLEAN],
     maxRetries : 0..ListMaxRetries]

\* a call _go_to_invoice_list(page): rounds[i] is what the i-th round meets
ListCalls ==
    [fn : {"goToInvoiceList"}, rounds : [1..MaxNetworkRetries + 1 -> RoundOutcomes]]

SessionInit ==
    /\ installed = TRUE
    /\ anyBrowser = TRUE
    /\ today = DT(FirstDay + 7, 10, 30, 0, 0)
    /\ weeksToProcess = 1
    /\ dateFrom = <<>>
    /\ dateTo = <<>>
    /\ pc = "session"
    /\ allRows = <<>>
    /\ NoEngines
    /\ Idle
    /\ NoCleaning
    /\ NoWindow
    /\ sessionCall \in TryCalls \cup ListCalls
    /\ sessionRet = NoRet

\* _try_action runs to its end
CallTryAction ==
    /\ pc = "session"
    /\ sessionCall.fn = "tryAction"
    /\ sessionRet' = TryAction(sessionCall.acts, sessionCall.waits, sessionCall.maxRetries)
    /\ pc' = "sessionDone"
    /\ UNCHANGED <<cleanerVars, hostVars, sessionCall, rangeNav, tableRead, configVars, windowVars, envVars, stats,
                   processed, browserVars, outcome, loginClick, rangeVars, tableVars,
                   docVars, attempts, lastExit, rowLog, progress>>

\* _go_to_invoice_list runs to its end
CallGoToInvoiceList ==
    /\ pc = "session"
    /\ sessionCall.fn = "goToInvoiceList"
    /\ sessionRet' = GoToInvoiceList(sessionCall.rounds)
    /\ pc' = "sessionDone"
    /\ UNCHANGED <<cleanerVars, hostVars, sessionCall, rangeNav, tableRead, configVars, windowVars, envVars, stats,
                   processed, browserVars, outcome, loginClick, rangeVars, tableVars,
                   docVars, attempts, lastExit, rowLog, progress>>

SessionNext == CallTryAction \/ CallGoToInvoiceList

SpecSession == SessionInit /\ [][SessionNext]_vars

----------------------------------------------------------------------------
(* The run up to the table scan of a date range, on every order table of at     *)
(* most MaxRows rows and on explicit ranges that begin or end at a row's day     *)

\* date_from and date_to: none, or a range that begins or ends at a day of RowDates
RangeTexts ==
    {<<<<>>, <<>>>>,
     <<<<2024, 2, 26>>, <<2024, 2, 28>>>>,
     <<<<2024, 2, 28>>, <<2024, 2, 28>>>>,
     <<<<2024, 2, 28>>, <<2024, 3, 5>>>>,
     <<<<2024, 3, 5>>, <<2024, 3, 8>>>>}

DiscoveryInit ==
    /\ installed = TRUE
    /\ anyBrowser = TRUE
    /\ today = DT(FirstDay + 7, 10, 30, 0, 0)
    /\ weeksToProcess \in 1..MaxRunWeeks
    /\ \E t \in RangeTexts : dateFrom = t[1] /\ dateTo = t[2]
    /\ allRows \in TablesUpTo(MaxRows)
    /\ NoEngines
    /\ pc = "start"
    /\ Idle
    /\ NoSession
    /\ NoWindow
    /\ NoCleaning

\* _process_date_range, lines 428-489, reading the rows allRows at its first or
\* second attempt and scanning them
ScanTable ==
    /\ pc = "table"
    /\ rangeNav' = "none"
    /\ tableRead' = "read"
    /\ weeksOrders' = Discover(allRows, dateRanges[rangeIdx])
    /\ orderIdx' = 1
    /\ pc' = "order"
    /\ UNCHANGED <<cleanerVars, hostVars, sessionVars, configVars, windowVars, envVars, stats, processed, browserVars,
                   outcome, loginClick, rangeVars, docVars, attempts, lastExit, rowLog,
                   progress>>

DiscoveryNext ==
    \/ StartRun
    \/ Login
    \/ Plan
    \/ RangeNav
    \/ ScanTable

SpecDiscovery == DiscoveryInit /\ [][DiscoveryNext]_vars

----------------------------------------------------------------------------
(* Engine construction: Fakturator.__init__ and Fakturator._update_config      *)

\* the most engines constructed
MaxEngines == 2

\* the key of each nested dict that custom configurations override
SubKey == [timeouts |-> "page", errorHandling |-> "maxNetworkRetries", cleaning |-> "keepWeeks"]

\* A custom_config dict: for weeksToProcess <<>> (no such key) or <<value>>; for a
\* nested key <<>> or <<v>>, the dict {SubKey: v}.
CustomConfigs ==
    [weeksToProcess : {<<>>, <<4>>},
     timeouts : {<<>>, <<5000>>, <<20000>>},
     errorHandling : {<<>>, <<1>>, <<5>>},
     cleaning : {<<>>, <<4>>, <<8>>}]

\* dict.copy(): a new dict holding the same values, so the same references
ShallowCopy(config) == config

\* _update_config(custom_config) on the engine's config: what becomes of the
\* config and of the dicts in memory
UpdateConfig(config, heap, custom) ==
    [config |-> IF custom.weeksToProcess # <<>>
                THEN [config EXCEPT !.weeksToProcess = custom.weeksToProcess[1]]
                ELSE config,
     heap |-> [id \in DOMAIN heap |->
                  IF \E s \in Sections : config[s] = id /\ custom[s] # <<>>
                  THEN LET s == CHOOSE s \in Sections : config[s] = id /\ custom[s] # <<>>
                       IN  [heap[id] EXCEPT ![SubKey[s]] = custom[s][1]]
                  ELSE heap[id]]]

\* what an engine's config says: every nested key with the content of its dict
View(config, heap) ==
    [weeksToProcess |-> config.weeksToProcess,
     timeouts |-> heap[config.timeouts],
     errorHandling |-> heap[config.errorHandling],
     cleaning |-> heap[config.cleaning]]

ConfigInit ==
    /\ installed = TRUE
    /\ anyBrowser = TRUE
    /\ today = DT(FirstDay + 7, 10, 30, 0, 0)
    /\ weeksToProcess = 1
    /\ dateFrom = <<>>
    /\ dateTo = <<>>
    /\ allRows = <<>>
    /\ NoEngines
    /\ Idle
    /\ NoSession
    /\ NoWindow
    /\ NoCleaning
    /\ pc = "config"

\* Fakturator(custom_config) with a dict: lines 85 and 112-113
Construct ==
    /\ pc = "config"
    /\ Len(engineConfigs) < MaxEngines
    /\ \E custom \in CustomConfigs :
          LET r == UpdateConfig(ShallowCopy(DefaultConfig), dictHeap, custom) IN
          /\ engineConfigs' = Append(engineConfigs, r.config)
          /\ dictHeap' = r.heap
    /\ UNCHANGED <<cleanerVars, hostVars, sessionVars, rangeNav, tableRead, windowVars, envVars, pc, stats,
                   processed, browserVars, outcome, loginClick, rangeVars, tableVars,
                   docVars, attempts, lastExit, rowLog, progress>>

ConfigNext == Construct

SpecConfig == ConfigInit /\ [][ConfigNext]_vars

----------------------------------------------------------------------------
(* Retention Cleaner: Fakturator.clean_old_invoices *)

\* largest number of entries of downloadBasePath
MaxEntries == 2
\* largest keepWeeks explored
MaxKeepWeeks == 2

\* a < b on datetimes
DtLess(a, b) == ~DtLeq(b, a)

\* The names of the entries.  A name of the form "range" is
\* <from>_<sep>_<to><tail> with from and to of the shape dddd-dd-dd, given as
\* <<year, month, day>>; a name of the form "shot" starts with zamowienia_tabela_.
RangeName(from, sep, to, tail) ==
    [form |-> "range", from |-> from, sep |-> sep, to |-> to, tail |-> tail]
ShotName(n) == [form |-> "shot", from |-> <<>>, sep |-> "", to |-> <<>>, tail |-> n]
OtherName(n) == [form |-> "other", from |-> <<>>, sep |-> "", to |-> <<>>, tail |-> n]

\* re.match(r"(\d{4}-\d{2}-\d{2})_do_(\d{4}-\d{2}-\d{2})", item): the pattern is
\* matched at the start of the name, what follows it is free
MatchRangeName(name) == name.form = "range" /\ name.sep = "do"

\* item.startswith("zamowienia_tabela_")
IsShotName(name) == name.form = "shot"

\* The year, month and day of a proleptic Gregorian ordinal, as datetime computes
\* them for strftime: cycles of 400, 100, 4 and 1 years, then the month.
Ord2Ymd(ordinal) ==
    LET n0 == ordinal - 1
        n400 == n0 \div 146097
        r400 == n0 % 146097
        n100 == r400 \div 36524
        r100 == r400 % 36524
        n4 == r100 \div 1461
        r4 == r100 % 1461
        n1 == r4 \div 365
        n == r4 % 365
        year == n400 * 400 + 1 + n100 * 100 + n4 * 4 + n1
    IN  IF n1 = 4 \/ n100 = 4 THEN <<year - 1, 12, 31>>
        ELSE LET guess == (n + 50) \div 32
                 before == DaysBeforeMonth(year, guess)
                 month == IF before > n THEN guess - 1 ELSE guess
             IN  <<year, month, n - DaysBeforeMonth(year, month) + 1>>

\* _create_folder_for_date_range: the name "<start>_do_<end>" with both dates
\* formatted by strftime('%Y-%m-%d').  The C library decides whether %Y pads a
\* year before 1000 with zeros (padYear); without padding the name has not the
\* form of four, two and two digits.
FolderName(startDate, endDate, padYear) ==
    LET from == Ord2Ymd(startDate.day)
        to == Ord2Ymd(endDate.day)
    IN  IF (from[1] >= 1000 /\ to[1] >= 1000) \/ padYear
        THEN RangeName(from, "do", to, "")
        ELSE OtherName("unpadded")

\* An entry of downloadBasePath: isDir (os.path.isdir, otherwise a regular file),
\* readable (os.listdir of the folder and os.stat of the file succeed), nFiles (the
\* regular files of a folder), mtime (st_mtime as a local datetime).
Entry(name, isDir, readable, nFiles, mtime) ==
    [name |-> name, isDir |-> isDir, readable |-> readable, nFiles |-> nFiles,
     mtime |-> mtime]

\* the entries explored; the days lie in the four weeks before 2024-03-03
DirEntries ==
    LET recent == DT(FirstDay - 1, 9, 0, 0, 0)
        old == DT(FirstDay - 20, 9, 0, 0, 0)
    IN  {Entry(RangeName(<<2024, 2, 11>>, "do", <<2024, 2, 17>>, ""), TRUE, TRUE, 1, recent),
         Entry(RangeName(<<2024, 2, 18>>, "do", <<2024, 2, 24>>, ""), TRUE, TRUE, 0, recent),
         Entry(RangeName(<<2024, 2, 19>>, "do", <<2024, 2, 25>>, ""), TRUE, TRUE, 1, old),
         Entry(RangeName(<<2024, 2, 25>>, "do", <<2024, 3, 2>>, ""), TRUE, TRUE, 1, recent),
         Entry(RangeName(<<2024, 2, 4>>, "do", <<2024, 2, 10>>, "_kopia"), TRUE, TRUE, 1, old),
         Entry(RangeName(<<2024, 2, 4>>, "do", <<2024, 2, 10>>, ".zip"), FALSE, TRUE, 0, old),
         Entry(RangeName(<<2024, 2, 4>>, "to", <<2024, 2, 10>>, ""), TRUE, TRUE, 1, old),
         Entry(RangeName(<<2024, 2, 4>>, "do", <<2024, 2, 30>>, ""), TRUE, TRUE, 1, old),
         Entry(RangeName(<<2024, 1, 28>>, "do", <<2024, 2, 3>>, ""), TRUE, FALSE, 1, old),
         Entry(ShotName("1.png"), FALSE, TRUE, 0, old),
         Entry(ShotName("2.png"), FALSE, TRUE, 0, recent),
         Entry(ShotName("3.png"), FALSE, FALSE, 0, old),
         Entry(ShotName("stare"), TRUE, TRUE, 1, old),
         Entry(OtherName("notatki.txt"), FALSE, TRUE, 0, old)}

\* the orders in which os.listdir can give the entries
Listings(entries) ==
    {l \in [1..Cardinality(entries) -> entries] : \A e \in entries : \E i \in DOMAIN l : l[i] = e}

\* cutoff_date = datetime.now() - timedelta(weeks=weeks_to_keep)
Cutoff(now, weeks) == MinusDays(now, 7 * weeks)

\* the test of a dated folder by the start of its range instead of the end
FolderIsOldByStart(startDate, endDate, cutoff) == DtLess(startDate, cutoff)

\* if end_date < cutoff_date
FolderIsOld(startDate, endDate, cutoff) == DtLess(endDate, cutoff)

\* The body of the scan loop for one entry: the item appended to items_to_delete,
\* as a sequence of at most one item.
ScanEntry(e, cutoff) ==
    IF MatchRangeName(e.name) /\ e.isDir
    THEN IF /\ StrpOk(e.name.from)
            /\ StrpOk(e.name.to)
            /\ FolderIsOld(StrpTime(e.name.from), StrpTime(e.name.to), cutoff)
            /\ e.readable
         THEN <<[entry |-> e, type |-> "folder", fileCount |-> e.nFiles]>>
         ELSE <<>>
    ELSE IF ~e.isDir /\ IsShotName(e.name)
         THEN IF e.readable /\ DtLess(e.mtime, cutoff)
              THEN <<[entry |-> e, type |-> "file", fileCount |-> 0]>>
              ELSE <<>>
         ELSE <<>>

\* the scan loop: items_to_delete for a listing
RECURSIVE Scan(_, _)
Scan(listing, cutoff) ==
    IF listing = <<>> THEN <<>>
    ELSE ScanEntry(Head(listing), cutoff) \o Scan(Tail(listing), cutoff)

\* folders_to_delete and files_to_delete after the scan
RECURSIVE ScanStats(_)
ScanStats(items) ==
    IF items = <<>> THEN ZeroCleanStats
    ELSE LET rest == ScanStats(Tail(items))
             item == Head(items)
         IN  IF item.type = "folder"
             THEN [rest EXCEPT !.folders_to_delete = @ + 1,
                               !.files_to_delete = @ + item.fileCount]
             ELSE [rest EXCEPT !.files_to_delete = @ + 1]

\* Texts: sequences of characters.  str.strip() and str.lower() on them.
Whitespace == {" ", "\t", "\n"}

RECURSIVE LStrip(_)
LStrip(t) == IF t # <<>> /\ Head(t) \in Whitespace THEN LStrip(Tail(t)) ELSE t

RECURSIVE RStrip(_)
RStrip(t) ==
    IF t # <<>> /\ t[Len(t)] \in Whitespace THEN RStrip(SubSeq(t, 1, Len(t) - 1)) ELSE t

Strip(t) == RStrip(LStrip(t))

LowerChar(c) ==
    IF c = "T" THEN "t" ELSE IF c = "A" THEN "a" ELSE IF c = "K" THEN "k"
    ELSE IF c = "N" THEN "n" ELSE c

Lower(t) == [i \in DOMAIN t |-> LowerChar(t[i])]

\* the test of the answer that also takes the empty answer for a yes
IsYesOrEmpty(response) ==
    response = <<>> \/ response = <<"t">> \/ response = <<"t", "a", "k">>

\* not (response != 't' and response != 'tak')
IsYes(response) == response = <<"t">> \/ response = <<"t", "a", "k">>

\* the lines input() can give
AnswerTexts ==
    {<<"t">>, <<"T">>, <<"t", "a", "k">>, <<" ", "T", "a", "k", "\t">>, <<"n">>, <<"N">>,
     <<>>, <<" ">>, <<"t", "a">>, <<"t", " ", "a", "k">>}

\* what input() can do: give a line, or raise (EOFError, no console)
Answers ==
    [raised : {FALSE}, text : AnswerTexts] \cup {[raised |-> TRUE, text |-> <<>>]}

CleanerInit ==
    /\ installed = TRUE
    /\ anyBrowser = TRUE
    /\ today \in {DT(FirstDay, 0, 0, 0, 0), DT(FirstDay, 10, 30, 0, 0)}
    /\ weeksToProcess = 1
    /\ dateFrom = <<>>
    /\ dateTo = <<>>
    /\ allRows = <<>>
    /\ NoEngines
    /\ Idle
    /\ NoSession
    /\ NoWindow
    /\ pc = "clean"
    /\ baseExists \in BOOLEAN
    /\ fsItems \in {es \in SUBSET DirEntries : Cardinality(es) <= MaxEntries}
    /\ keepWeeks \in 1..MaxKeepWeeks
    /\ confirm \in BOOLEAN
    /\ itemsToDelete = <<>>
    /\ cleanStats = ZeroCleanStats
    /\ deletePos = 0
    /\ manifestShown = FALSE
    /\ answered = <<>>
    /\ removed = {}

\* clean_old_invoices, lines 998-1076: the scan and the list of what it found
ScanFolders ==
    /\ pc = "clean"
    /\ IF ~baseExists
       THEN /\ pc' = "cleanDone"
            /\ UNCHANGED <<itemsToDelete, cleanStats, manifestShown>>
       ELSE \E listing \in Listings(fsItems) :
               LET items == Scan(listing, Cutoff(today, keepWeeks)) IN
               /\ itemsToDelete' = items
               /\ cleanStats' = ScanStats(items)
               /\ manifestShown' = (items # <<>>)
               /\ pc' = IF items = <<>> THEN "cleanDone" ELSE "cleanConfirm"
    /\ UNCHANGED <<hostVars, rangeNav, tableRead, sessionVars, configVars, windowVars, envVars, stats, processed, browserVars, outcome, loginClick, rangeVars,
                   tableVars, docVars, attempts, lastExit, rowLog, progress, baseExists,
                   fsItems, keepWeeks, confirm, deletePos, answered, removed>>

\* clean_old_invoices, lines 1078-1088: the confirmation
ConfirmStep ==
    /\ pc = "cleanConfirm"
    /\ IF ~confirm
       THEN /\ pc' = "cleanDelete"
            /\ deletePos' = 1
            /\ UNCHANGED answered
       ELSE \E a \in Answers :
               /\ answered' = <<a>>
               /\ IF ~a.raised /\ IsYes(Lower(Strip(a.text)))
                  THEN pc' = "cleanDelete" /\ deletePos' = 1
                  ELSE pc' = "cleanDone" /\ UNCHANGED deletePos
    /\ UNCHANGED <<hostVars, rangeNav, tableRead, sessionVars, configVars, windowVars, envVars, stats, processed, browserVars, outcome, loginClick, rangeVars,
                   tableVars, docVars, attempts, lastExit, rowLog, progress, baseExists,
                   fsItems, keepWeeks, confirm, itemsToDelete, cleanStats, manifestShown,
                   removed>>


\* the deletion loop left at the first item whose deletion raises
DeleteStepStopsAtFailure ==
    /\ pc = "cleanDelete"
    /\ deletePos <= Len(itemsToDelete)
    /\ LET item == itemsToDelete[deletePos] IN
       \E ok \in BOOLEAN :
          IF ok
          THEN /\ fsItems' = fsItems \ {item.entry}
               /\ removed' = removed \cup {item.entry}
               /\ cleanStats' = IF item.type = "folder"
                                THEN [cleanStats EXCEPT !.folders_deleted = @ + 1]
                                ELSE [cleanStats EXCEPT !.files_deleted = @ + 1]
               /\ deletePos' = deletePos + 1
               /\ pc' = pc
          ELSE /\ pc' = "cleanDone"
               /\ UNCHANGED <<fsItems, removed, cleanStats, deletePos>>
    /\ UNCHANGED <<hostVars, rangeNav, tableRead, sessionVars, configVars, windowVars, envVars, stats, processed,
                   browserVars, outcome, loginClick, rangeVars, tableVars, docVars, attempts,
                   lastExit, rowLog, progress, baseExists, keepWeeks, confirm, itemsToDelete,
                   manifestShown, answered>>

\* clean_old_invoices, lines 1093-1104: one pass of the deletion loop
DeleteStep ==
    /\ pc = "cleanDelete"
    /\ deletePos <= Len(itemsToDelete)
    /\ LET item == itemsToDelete[deletePos] IN
       \E ok \in BOOLEAN :
          IF ok
          THEN /\ fsItems' = fsItems \ {item.entry}
               /\ removed' = removed \cup {item.entry}
               /\ cleanStats' = IF item.type = "folder"
                                THEN [cleanStats EXCEPT !.folders_deleted = @ + 1]
                                ELSE [cleanStats EXCEPT !.files_deleted = @ + 1]
          ELSE UNCHANGED <<fsItems, removed, cleanStats>>
    /\ deletePos' = deletePos + 1
    /\ UNCHANGED <<hostVars, rangeNav, tableRead, sessionVars, configVars, windowVars, envVars, stats, processed, browserVars, outcome, loginClick, rangeVars,
                   tableVars, docVars, attempts, lastExit, rowLog, progress, pc, baseExists,
                   keepWeeks, confirm, itemsToDelete, manifestShown, answered>>

\* clean_old_invoices, lines 1106-1111: the summary and the return
CleanSummary ==
    /\ pc = "cleanDelete"
    /\ deletePos > Len(itemsToDelete)
    /\ pc' = "cleanDone"
    /\ UNCHANGED <<hostVars, rangeNav, tableRead, sessionVars, configVars, windowVars, envVars, stats, processed, browserVars, outcome, loginClick, rangeVars,
                   tableVars, docVars, attempts, lastExit, rowLog, progress, cleanerVars>>

CleanerNext ==
    \/ ScanFolders
    \/ ConfirmStep
    \/ DeleteStep
    \/ CleanSummary

SpecCleaner == CleanerInit /\ [][CleanerNext]_vars

----------------------------------------------------------------------------
(* Properties *)

\* the elements of a sequence
Range(seq) == {seq[i] : i \in DOMAIN seq}

\* C1: within one run every order number starts at most one processing attempt,
\* and the step that meets an order number already in the processed set changes
\* neither the statistics nor the browser nor the state of the processor: it only
\* moves on to the next candidate.
C1_AtMostOneAttempt ==
    /\ [](\A o \in Orders : attempts[o] <= 1)
    /\ [][(/\ pc = "order"
           /\ orderIdx <= Len(weeksOrders)
           /\ weeksOrders[orderIdx] \in processed)
          => (/\ pc' = "order"
              /\ lastExit'.kind = "skipped"
              /\ ~lastExit'.navBack
              /\ UNCHANGED <<stats, processed, attempts, browserVars, docVars, rowLog>>)]_vars

\* C1 witness: an order number attempted once is met again in the second date
\* range and skipped.
C1_Witness ==
    /\ lastExit.kind = "skipped"
    /\ rangeIdx = 2
    /\ attempts[lastExit.order] = 1

\* C2: whatever fails, run ends by returning its statistics.
C2_AlwaysReturnsStats == pc = "done" => outcome = "returned"

C4_NonPdfNeverCounted == \A c \in Range(rowLog.counted) : c.file.sig

\* C5: a persisted PDF with the privacy-policy marker is renamed, is not counted,
\* and the strategy after the one that wrote it is attempted.
C5_PrivacyPolicyHandled ==
    \A p \in Range(rowLog.persisted) :
        (p.file.sig /\ p.file.marker)
            => /\ p \notin Range(rowLog.counted)
               /\ rowLog.renamed
               /\ p.by = "primary" => "secondary" \in Range(rowLog.attempted)
               /\ p.by = "secondary" => "tertiary" \in Range(rowLog.attempted)

\* C6: every attempt that passed the dedup gate has called _go_to_invoice_list
\* when _process_order is left, by return or by exception.
C6_AlwaysBackToList == lastExit.kind \in {"returned", "raised"} => lastExit.navBack

\* C7: once the login click has failed after its retries, the run is on its way
\* out: no date range was planned, no order attempted, errors is 1, and at the
\* end the browser is closed.
C7_LoginFailureAborts ==
    loginClick = "false"
        => /\ pc \in {"close", "done"}
           /\ stats.errors = 1
           /\ dateRanges = <<>>
           /\ \A o \in Orders : attempts[o] = 0
           /\ pc = "done" => closeCount = 1

\* C8: with the engine or every browser unavailable no launch is attempted, and
\* the run ends with the failure in errors.
C8_UnavailableFailsFast ==
    ~CheckPlaywrightAvailability(installed, anyBrowser)
        => /\ launchAttempts = 0
           /\ pc = "done" => stats.errors >= 1

\* C9: leaving the document loop, processedOrders grows by 1 if a download of the
\* order was counted in downloadedInvoices, and by 0 if none was.
C9_ProcessedIffDownloaded ==
    [][pc = "finish"
        => stats'.processedOrders
             = stats.processedOrders + (IF anyCounted THEN 1 ELSE 0)]_vars

\* C10: with no explicit range the planner returns weeksToProcess ranges, each
\* from a Sunday 00:00:00 to the Saturday six days later 23:59:59.999999, each
\* starting exactly seven days before the one listed before it.
C10_WeekRanges ==
    (pc = "planned" /\ (dateFrom = <<>> \/ dateTo = <<>>))
        => /\ Len(dateRanges) = weeksToProcess
           /\ \A k \in DOMAIN dateRanges :
                /\ Weekday(dateRanges[k].startDate.day) = 6
                /\ dateRanges[k].startDate = DT(dateRanges[k].startDate.day, 0, 0, 0, 0)
                /\ dateRanges[k].endDate
                      = DT(dateRanges[k].startDate.day + 6, 23, 59, 59, 999999)
                /\ k > 1 => dateRanges[k].startDate.day
                              = dateRanges[k - 1].startDate.day - 7

\* C10 witness: several weeks planned on a Sunday, with no explicit range.
C10_Witness ==
    /\ pc = "planned"
    /\ dateFrom = <<>>
    /\ Len(dateRanges) >= 2
    /\ Weekday(today.day) = 6

\* C11: with no explicit range, the k-th range listed (k from 0) lies around the
\* moment today minus 7k days: its start is not after it and its end not before it.
C11_WeekContainsDay ==
    (pc = "planned" /\ (dateFrom = <<>> \/ dateTo = <<>>))
        => \A k \in DOMAIN dateRanges :
              /\ DtLeq(dateRanges[k].startDate, MinusDays(today, 7 * (k - 1)))
              /\ DtLeq(MinusDays(today, 7 * (k - 1)), dateRanges[k].endDate)

\* C12: when date_from and date_to are both set and both parse, the planner
\* returns one range, from the day of date_from at 00:00:00 to the day of date_to
\* at 23:59:59.999999, whatever weeksToProcess is.
C12_ExplicitRangeOverrides ==
    (/\ pc \in {"planned", "plannerRaised"}
     /\ dateFrom # <<>> /\ dateTo # <<>>
     /\ StrpOk(dateFrom) /\ StrpOk(dateTo))
        => /\ pc = "planned"
           /\ dateRanges = <<[startDate |-> DT(StrpTime(dateFrom).day, 0, 0, 0, 0),
                              endDate |-> DT(StrpTime(dateTo).day, 23, 59, 59, 999999)]>>

\* C13: every entry clean_old_invoices removed is one of the items its scan put on
\* the list, and every folder it removed carries a valid end date in its name that
\* lies strictly before now minus keepWeeks weeks.
C13_OnlyOldFoldersRemoved ==
    \A e \in removed :
        /\ \E i \in DOMAIN itemsToDelete : itemsToDelete[i].entry = e
        /\ e.isDir => /\ StrpOk(e.name.to)
                      /\ DtLess(StrpTime(e.name.to), MinusDays(today, 7 * keepWeeks))

\* C13 witness: a clean ended having removed a dated folder and kept another dated
\* folder whose end date is not before the cutoff.
C13_Witness ==
    /\ pc = "cleanDone"
    /\ \E e \in removed : e.isDir
    /\ \E f \in fsItems :
          /\ f.isDir /\ f.name.form = "range" /\ f.name.sep = "do" /\ StrpOk(f.name.to)
          /\ DtLeq(MinusDays(today, 7 * keepWeeks), StrpTime(f.name.to))

\* C14: nothing is removed before the list of candidates was written, and with
\* confirmation required nothing is removed and both deletion counts stay 0 unless
\* input() gave a line that is 't' or 'tak' once stripped and lowered; an input()
\* that raises counts as no answer.
C14_NoDeletionWithoutYes ==
    /\ (removed # {} \/ pc = "cleanDelete") => manifestShown
    /\ (/\ confirm
        /\ ~(/\ answered # <<>>
             /\ ~answered[1].raised
             /\ Lower(Strip(answered[1].text)) \in {<<"t">>, <<"t", "a", "k">>}))
          => /\ removed = {}
             /\ pc # "cleanDelete"
             /\ cleanStats.folders_deleted = 0
             /\ cleanStats.files_deleted = 0

\* C14 witness: candidates were listed, confirmation was required, input() raised,
\* and the clean ended with every entry still in place.
C14_Witness ==
    /\ pc = "cleanDone"
    /\ confirm
    /\ manifestShown
    /\ Len(itemsToDelete) >= 1
    /\ answered # <<>>
    /\ answered[1].raised
    /\ removed = {}
    /\ \A i \in DOMAIN itemsToDelete : itemsToDelete[i].entry \in fsItems

\* C15: a run over N >= 1 date ranges that ended without an exception reported 5,
\* then the floor of 5 + 90 * i / N after the i-th range for i = 1..N, then 100;
\* the values never decrease and lie within 0..100; a run that counted an error
\* never reported 100.
C15_ProgressValues ==
    /\ \A k \in DOMAIN progress :
          /\ progress[k] \in 0..100
          /\ k > 1 => progress[k - 1] <= progress[k]
    /\ stats.errors > 0 => \A k \in DOMAIN progress : progress[k] # 100
    /\ (pc = "done" /\ outcome = "returned" /\ stats.errors = 0 /\ Len(dateRanges) >= 1)
          => LET N == Len(dateRanges) IN
             /\ Len(progress) = N + 2
             /\ progress[1] = 5
             /\ \A i \in 1..N : progress[i + 1] = (5 * N + 90 * i) \div N
             /\ progress[N + 2] = 100

\* C16: when the worker thread has ended, the host has received one completion
\* message, and it carries the statistics of the run.
C16_OneCompletionMessage ==
    pc = "joined" => (Len(finished) = 1 /\ finished[1] = stats)

\* C17: when _go_to_invoice_list returned False at the start of a date range, the
\* range is left with no order taken from the table and nothing counted, and the
\* run goes on with the end of that range.
C17_FailedNavigationSkipsRange ==
    [][(pc = "table" /\ rangeNav = "false")
        => (pc' = "order" /\ weeksOrders' = <<>> /\ stats' = stats)]_vars

\* C18: the set of processed order numbers is empty whenever a run starts, and an
\* order number is skipped by the gate only if the same run attempted it before.
C18_ProcessedSetRunScoped ==
    /\ pc = "start" => processed = {}
    /\ lastExit.kind = "skipped" => attempts[lastExit.order] >= 1

\* C19: when the table read of a date range fails, by the reload raising or by
\* the second read raising, the range has zero orders, errors is unchanged and
\* the run goes on with the end of that range.
C19_TableReadFailureKeepsRun ==
    [][(pc = "table" /\ tableRead' \in {"failed", "reloadRaised"})
        => (pc' = "order" /\ weeksOrders' = <<>> /\ stats' = stats)]_vars

\* C20: when the primary strategy ran for a row and left no file with the %PDF
\* signature (no download, an exception, no file, a file that is no PDF), the
\* secondary strategy was attempted, and the tertiary too unless the secondary
\* produced the counted download.
C20_PrimaryFailureAdvancesChain ==
    (/\ rowLog.attempted # <<>>
     /\ rowLog.attempted[1] = "primary"
     /\ \A p \in Range(rowLog.persisted) : p.by = "primary" => ~p.file.sig)
        => /\ "secondary" \in Range(rowLog.attempted)
           /\ \/ "tertiary" \in Range(rowLog.attempted)
              \/ \E c \in Range(rowLog.counted) : c.by = "secondary"

\* C21: when the primary, the secondary and the tertiary strategy have all been
\* tried for an invoice row and none produced a counted download, the row-error
\* counter of the order has grown by one for that row.
C21_ExhaustedChainCountsError ==
    (rowLog.attempted = <<"primary", "secondary", "tertiary">> /\ rowLog.counted = <<>>)
        => rowLog.err = 1

\* C22: once the row-error counter of an order has reached three, no further
\* document row of that order is processed (the index of the document loop does
\* not advance again).
C22_ThreeRowErrorsStopOrder == [][docErrors >= MaxRowErrors => docIdx' <= docIdx]_vars

\* C23: a timeout checkpoint that finds the budget of the order exceeded starts no
\* further document row; the order is then left through the return to the invoice
\* list, and the step that leaves it does not change errors.
C23_TimeoutLeavesOrder ==
    [][/\ (isTimedOut' /\ ~isTimedOut) => (pc' = "finish" /\ stats' = stats)
       /\ isTimedOut => docIdx' <= docIdx
       /\ (pc \in {"open", "finish"} /\ lastExit'.timedOut)
              => (lastExit'.navBack /\ stats'.errors = stats.errors)]_vars

\* C28: one invoice row increases downloadedInvoices by at most 1: the strategies
\* run in the order primary, secondary, tertiary and none runs after a strategy
\* whose download was counted.
C28_AtMostOneCountPerRow ==
    /\ rowLog.dl <= 1
    /\ \E n \in 0..3 : rowLog.attempted = SubSeq(<<"primary", "secondary", "tertiary">>, 1, n)
    /\ \A i \in DOMAIN rowLog.counted :
          rowLog.counted[i].by = rowLog.attempted[Len(rowLog.attempted)]

\* C24: _try_action calls the action at most max_retries times, calls it no more
\* after its first success, returns True exactly when a call of the action
\* succeeded, and returns False when all max_retries calls have failed.
C24_TryActionRetries ==
    (pc = "sessionDone" /\ sessionCall.fn = "tryAction")
        => LET acts == sessionCall.acts
               n == sessionRet.calls
           IN  /\ n <= sessionCall.maxRetries
               /\ \A k \in 1..(n - 1) : ~acts[k]
               /\ (sessionRet.result = "true") <=> (n >= 1 /\ acts[n])
               /\ (n = sessionCall.maxRetries /\ \A k \in 1..n : ~acts[k])
                      => sessionRet.result = "false"

\* C24 witness: with the default max_retries the action failed twice and succeeded
\* at its third call, or failed three times.
C24_Witness ==
    /\ pc = "sessionDone"
    /\ sessionCall.fn = "tryAction"
    /\ sessionCall.maxRetries = DefaultMaxRetries
    /\ sessionRet.calls = DefaultMaxRetries
    /\ ~sessionCall.acts[1] /\ ~sessionCall.acts[2]
    /\ sessionRet.result = IF sessionCall.acts[3] THEN "true" ELSE "false"

\* C25: _try_action never raises to its caller: whatever the action and the waits
\* between the attempts do, it returns True or False.
C25_TryActionNeverRaises ==
    (pc = "sessionDone" /\ sessionCall.fn = "tryAction")
        => sessionRet.result \in {"true", "false"}

\* C26: _go_to_invoice_list ends with True or False and never raises; it runs at
\* most maxNetworkRetries + 1 rounds; a round whose click succeeded and whose table
\* did not show even after the one reload and the wait that follows it ends the
\* call with False at once; True is returned only from a round that saw the rows.
C26_GoToInvoiceListReturns ==
    (pc = "sessionDone" /\ sessionCall.fn = "goToInvoiceList")
        => LET n == sessionRet.rounds
               last == sessionCall.rounds[n]
           IN  /\ sessionRet.result \in BOOLEAN
               /\ n \in 1..(MaxNetworkRetries + 1)
               /\ \A k \in 1..(n - 1) :
                     sessionCall.rounds[k] \notin {"table", "tableAfterReload", "noTable"}
               /\ last = "noTable" => sessionRet.result = FALSE
               /\ sessionRet.result = TRUE <=> last \in {"table", "tableAfterReload"}
               /\ (sessionRet.result = FALSE /\ last # "noTable") => n = MaxNetworkRetries + 1

\* C26 witness: three rounds ended by an exception, the fourth found no table even
\* after its reload.
C26_Witness ==
    /\ pc = "sessionDone"
    /\ sessionCall.fn = "goToInvoiceList"
    /\ sessionCall.rounds = <<"raise", "reloadRaise", "false", "noTable">>
    /\ sessionRet = [result |-> FALSE, rounds |-> 4]

\* C29: when date_from and date_to are both set and one of them does not parse,
\* what the planner returns is the list of the ranges of the week loop for
\* weeksToProcess.
C29_ParseFailureFallsBack ==
    (/\ pc = "planned"
     /\ dateFrom # <<>> /\ dateTo # <<>>
     /\ ~(StrpOk(dateFrom) /\ StrpOk(dateTo)))
        => dateRanges = WeekRanges(today, weeksToProcess)

\* C29 witness: date_from is no date of the calendar, date_to parses, and the
\* planner has returned the week ranges.
C29_Witness ==
    /\ pc = "planned"
    /\ dateFrom = <<2024, 2, 30>>
    /\ dateTo = <<2024, 3, 8>>
    /\ weeksToProcess >= 2
    /\ dateRanges = WeekRanges(today, weeksToProcess)

\* C27: a row is an order candidate of a range when it is readable with at least
\* two cells, carries a date token and an order number token, and its date is a
\* day of the calendar from the start day to the end day of the range.
C27_IsCandidate(row, range) ==
    /\ row.cells
    /\ row.date # <<>>
    /\ row.order # ""
    /\ LET t == <<row.date[3], row.date[2], row.date[1]>> IN
       /\ StrpOk(t)
       /\ range.startDate.day <= StrpTime(t).day
       /\ StrpTime(t).day <= range.endDate.day

\* C27: the order candidates of a date range are exactly the candidate rows of the
\* table, in table order, each once; the other rows are skipped and the scan ends
\* without an error.
C27_CandidatesOfRange ==
    (pc = "order" /\ tableRead = "read")
        => LET sel == SelectSeq(allRows,
                                LAMBDA row : C27_IsCandidate(row, dateRanges[rangeIdx]))
           IN  /\ weeksOrders = [k \in 1..Len(sel) |-> sel[k].order]
               /\ stats.errors = 0

\* C27 witness: of two rows the first has no order number token and is skipped,
\* the second is dated on the day the explicit range both begins and ends.
C27_Witness ==
    /\ pc = "order"
    /\ tableRead = "read"
    /\ dateFrom = <<2024, 2, 28>>
    /\ dateTo = <<2024, 2, 28>>
    /\ Len(allRows) = 2
    /\ allRows[1].order = ""
    /\ allRows[2] = [cells |-> TRUE, date |-> <<28, 2, 2024>>, order |-> "ZS/2/2/UR"]
    /\ weeksOrders = <<"ZS/2/2/UR">>

\* C30: once the deletion loop of a confirmed clean has begun, the cleaner ends
\* only after a deletion was attempted for every item of the manifest, whether
\* or not earlier ones failed; folders_deleted is the number of folders removed
\* and is at most folders_to_delete.
C30_DeletionFailureDoesNotStop ==
    (deletePos >= 1)
        => /\ pc = "cleanDone" => deletePos = Len(itemsToDelete) + 1
           /\ cleanStats.folders_deleted = Cardinality({e \in removed : e.isDir})
           /\ cleanStats.folders_deleted <= cleanStats.folders_to_delete

\* C30 witness: of two folders of the manifest the first could not be deleted,
\* the second was, and the cleaner has ended.
C30_Witness ==
    /\ pc = "cleanDone"
    /\ Len(itemsToDelete) = 2
    /\ deletePos = 3
    /\ itemsToDelete[1].type = "folder"
    /\ itemsToDelete[1].entry \notin removed
    /\ itemsToDelete[2].type = "folder"
    /\ itemsToDelete[2].entry \in removed
    /\ cleanStats.folders_deleted = 1
    /\ cleanStats.folders_to_delete = 2

\* C31: after a clean whose deletion loop ran and in which every deletion
\* succeeded, folders_deleted equals folders_to_delete and files_deleted equals
\* files_to_delete.
C31_CountsAgreeAfterClean ==
    (/\ pc = "cleanDone"
     /\ deletePos = Len(itemsToDelete) + 1
     /\ \A i \in DOMAIN itemsToDelete : itemsToDelete[i].entry \in removed)
        => /\ cleanStats.folders_deleted = cleanStats.folders_to_delete
           /\ cleanStats.files_deleted = cleanStats.files_to_delete

C33_CountersMonotone ==
    /\ [](stats.processedOrders <= stats.downloadedInvoices)
    /\ [][IF pc = "start"
          THEN stats'.processedOrders = 0 /\ stats'.downloadedInvoices = 0
          ELSE /\ stats'.processedOrders >= stats.processedOrders
               /\ stats'.downloadedInvoices >= stats.downloadedInvoices]_vars

\* C33 witness: the second run on an engine has ended having counted one order
\* and two downloads.
C33_Witness ==
    /\ pc = "done"
    /\ runNo = 2
    /\ stats.processedOrders = 1
    /\ stats.downloadedInvoices = 2

\* C34: constructing an engine with overrides of nested keys leaves the content
\* of DEFAULT_CONFIG and the configuration of every engine constructed before as
\* they were.
C34_OverridesStayInInstance ==
    [][Len(engineConfigs') > Len(engineConfigs)
          => /\ View(DefaultConfig, dictHeap') = View(DefaultConfig, dictHeap)
             /\ \A i \in DOMAIN engineConfigs :
                   View(engineConfigs'[i], dictHeap') = View(engineConfigs[i], dictHeap)]_vars

\* C35: every range the planner has returned begins no later than it ends.
C35_RangesOrdered ==
    pc = "planned"
        => \A i \in DOMAIN dateRanges : DtLeq(dateRanges[i].startDate, dateRanges[i].endDate)

\* C36: for every range the planner has returned, the name of the folder it
\* created is matched by the folder pattern of the cleaner, and the two dates the
\* cleaner parses from the name are the days of the start and of the end of the
\* range, whatever the C library does with the year in strftime.
C36_FolderNameRoundTrip ==
    pc = "planned"
        => \A i \in DOMAIN dateRanges : \A padYear \in BOOLEAN :
              LET name == FolderName(dateRanges[i].startDate, dateRanges[i].endDate, padYear)
              IN  /\ MatchRangeName(name)
                  /\ StrpOk(name.from)
                  /\ StrpOk(name.to)
                  /\ StrpTime(name.from).day = dateRanges[i].startDate.day
                  /\ StrpTime(name.to).day = dateRanges[i].endDate.day

----------------------------------------------------------------------------
(* The host windows: FakturatorWindow (src/app/ui/fakturator_window.py) and      *)
(* MainWindow (src/app/ui/main_window.py) with their FakturatorThread workers.   *)
(* A click reaches its handler only while the button is enabled; a signal of a   *)
(* worker thread is queued and delivered to its slot by the event loop later.    *)

\* largest number of workers started
MaxStarts == 3
\* largest value of the weeks spinbox explored (the spinbox allows 1..8)
MaxSpin == 2

\* str(n)
StrValue(n) == [type |-> "str", val |-> n]

\* Fakturator.__init__ with a dict: the values of ConfigManager, then
\* _update_config(custom), which sets a key only where self.config has it
EngineConfig(settings, custom) ==
    LET base == [login |-> settings.login, weeksToProcess |-> settings.weeks_to_process]
    IN  [key \in DOMAIN base |-> IF key \in DOMAIN custom THEN custom[key] ELSE base[key]]

\* custom_config of start_download, both windows
CustomConfig(spin) == [login |-> "login", weeks_to_process |-> IntValue(spin)]

\* the week loop of _calculate_date_ranges on the configured value: range() of a
\* str raises TypeError, which the handler of run catches
PlanWeeks(now, value) ==
    IF value.type = "int"
    THEN LET r == CalculateDateRanges(now, <<>>, <<>>, value.val,
                                      [explicit |-> TRUE, week |-> TRUE])
         IN  [planner |-> "returned", ranges |-> Len(r.ranges)]
    ELSE [planner |-> "raised", ranges |-> 0]

\* the workers whose thread runs
Running == {w \in DOMAIN workers : workers[w].state = "running"}

\* self.fakturator_thread and self.fakturator_thread.isRunning()
ThreadIsRunning == threadRef # 0 /\ workers[threadRef].state = "running"

\* a window after construction, its first installation check passed, the settings
\* file as _create_default_config writes it
WindowInit ==
    /\ installed = TRUE
    /\ anyBrowser = TRUE
    /\ today = DT(FirstDay + 7, 10, 30, 0, 0)
    /\ weeksToProcess = 1
    /\ dateFrom = <<>>
    /\ dateTo = <<>>
    /\ allRows = <<>>
    /\ NoEngines
    /\ Idle
    /\ NoSession
    /\ NoCleaning
    /\ pc = "window"
    /\ window \in {"fakturator", "main"}
    /\ startEnabled = TRUE
    /\ stopEnabled = FALSE
    /\ threadRef = 0
    /\ workers = <<>>
    /\ posted = <<>>
    /\ statusPending = FALSE
    /\ weeksSpinbox = 2
    /\ saveCombo \in BOOLEAN
    /\ settingsWeeks = IntValue(2)

WindowRest ==
    UNCHANGED <<cleanerVars, hostVars, sessionVars, configVars, rangeNav, tableRead, envVars,
                pc, stats, processed, browserVars, outcome, loginClick, rangeVars,
                tableVars, docVars, attempts, lastExit, rowLog, progress, window>>

\* the user turns the weeks spinbox
SetWeeks ==
    /\ pc = "window"
    /\ \E n \in 1..MaxSpin : n # weeksSpinbox /\ weeksSpinbox' = n
    /\ UNCHANGED <<startEnabled, stopEnabled, threadRef, workers, posted,
                   statusPending, saveCombo, settingsWeeks>>
    /\ WindowRest

\* the worker FakturatorThread(custom_config) as start() leaves it: download_invoices
\* constructs the engine from the settings file and custom_config
NewWorker(settings, spin, saved) ==
    [state |-> "running",
     config |-> EngineConfig([login |-> "login", weeks_to_process |-> settings],
                             CustomConfig(spin)),
     spin |-> spin, saved |-> saved, planner |-> "none", ranges |-> 0]

\* FakturatorWindow.start_download past its guard, lines 574-606
FakturatorStartBody(credentials, mkdirOk) ==
    IF ~credentials
    THEN UNCHANGED <<startEnabled, stopEnabled, threadRef, workers, settingsWeeks>>
    ELSE LET saved == IF saveCombo THEN StrValue(weeksSpinbox) ELSE settingsWeeks IN
         /\ settingsWeeks' = saved
         /\ IF mkdirOk
            THEN /\ workers' = Append(workers, NewWorker(saved, weeksSpinbox, saveCombo))
                 /\ threadRef' = Len(workers) + 1
                 /\ startEnabled' = FALSE
                 /\ stopEnabled' = TRUE
            ELSE UNCHANGED <<startEnabled, stopEnabled, threadRef, workers>>

\* FakturatorWindow.start_download, lines 566-622: the guard on the thread in work,
\* the credentials, save_current_config (lines 504-518, which stores
\* str(weeks_spinbox.value())), os.makedirs, the thread, the buttons.  The call
\* set_scenario_value("urtica", **custom_config) of line 616 raises TypeError, which
\* the except clause of line 620 logs: nothing after the buttons takes effect.
FakturatorStart(credentials, mkdirOk) ==
    IF ThreadIsRunning
    THEN UNCHANGED <<startEnabled, stopEnabled, threadRef, workers, settingsWeeks>>
    ELSE FakturatorStartBody(credentials, mkdirOk)

\* MainWindow.start_download, lines 475-517: the buttons, save_config (lines
\* 1082-1086, which stores weeks_spinbox.value()), the thread
MainStart ==
    /\ startEnabled' = FALSE
    /\ stopEnabled' = TRUE
    /\ settingsWeeks' = IntValue(weeksSpinbox)
    /\ workers' = Append(workers, NewWorker(IntValue(weeksSpinbox), weeksSpinbox, TRUE))
    /\ threadRef' = Len(workers) + 1

\* a click on the start button
ClickStart ==
    /\ pc = "window"
    /\ startEnabled
    /\ Len(workers) < MaxStarts
    /\ IF window = "fakturator"
       THEN \E credentials \in BOOLEAN, mkdirOk \in BOOLEAN :
               FakturatorStart(credentials, mkdirOk)
       ELSE MainStart
    /\ UNCHANGED <<posted, statusPending, weeksSpinbox, saveCombo>>
    /\ WindowRest

\* a click on the stop button: stop_download of both windows (fakturator_window.py
\* lines 624-637, main_window.py lines 515-532) terminates the thread in work and
\* waits for it, then sets the buttons; with no thread in work it changes nothing
ClickStop ==
    /\ pc = "window"
    /\ stopEnabled
    /\ IF ThreadIsRunning
       THEN /\ workers' = [workers EXCEPT ![threadRef].state = "terminated"]
            /\ startEnabled' = TRUE
            /\ stopEnabled' = FALSE
       ELSE UNCHANGED <<startEnabled, stopEnabled, workers>>
    /\ UNCHANGED <<threadRef, posted, statusPending, weeksSpinbox, saveCombo,
                   settingsWeeks>>
    /\ WindowRest

\* FakturatorThread.run, lines 37-50 (main_window.py lines 35-44), comes to its
\* end: download_invoices returned the statistics and finished_signal is emitted,
\* or it raised and only log_signal is emitted.  A run that came to the planner
\* has planned its weeks from the engine's configuration.
WorkerEnd ==
    /\ pc = "window"
    /\ \E w \in Running, how \in {"returned", "raised"}, planned \in BOOLEAN :
          LET plan == IF planned THEN PlanWeeks(today, workers[w].config.weeksToProcess)
                      ELSE [planner |-> "none", ranges |-> 0]
          IN  /\ workers' = [workers EXCEPT ![w].state = how,
                                            ![w].planner = plan.planner,
                                            ![w].ranges = plan.ranges]
              /\ posted' = IF how = "returned" THEN Append(posted, "finished") ELSE posted
    /\ UNCHANGED <<startEnabled, stopEnabled, threadRef, statusPending, weeksSpinbox,
                   saveCombo, settingsWeeks>>
    /\ WindowRest

\* download_finished: fakturator_window.py lines 948-952 forgets the thread and sets
\* the buttons, main_window.py lines 549-559 sets the buttons
DownloadFinished ==
    /\ pc = "window"
    /\ posted # <<>>
    /\ Head(posted) = "finished"
    /\ posted' = Tail(posted)
    /\ threadRef' = IF window = "fakturator" THEN 0 ELSE threadRef
    /\ startEnabled' = TRUE
    /\ stopEnabled' = FALSE
    /\ UNCHANGED <<workers, statusPending, weeksSpinbox, saveCombo, settingsWeeks>>
    /\ WindowRest

\* largest number of installation checks
MaxChecks == 2

\* FakturatorWindow.check_playwright_installation, lines 643-660, called when the
\* Playwright manager window closes or an installation ends:
\* set_action_buttons_enabled(False) and the status thread
CheckPlaywrightInstallation ==
    /\ pc = "window"
    /\ window = "fakturator"
    /\ ~statusPending
    /\ Len(SelectSeq(posted, LAMBDA m : m = "status")) < MaxChecks
    /\ statusPending' = TRUE
    /\ startEnabled' = FALSE
    /\ stopEnabled' = FALSE
    /\ UNCHANGED <<threadRef, workers, posted, weeksSpinbox, saveCombo,
                   settingsWeeks>>
    /\ WindowRest

\* PlaywrightStatusThread.run, lines 102-119, comes to its end: status_signal is
\* emitted on both paths
StatusThreadEnd ==
    /\ pc = "window"
    /\ statusPending
    /\ statusPending' = FALSE
    /\ posted' = Append(posted, "status")
    /\ UNCHANGED <<startEnabled, stopEnabled, threadRef, workers, weeksSpinbox, saveCombo,
                   settingsWeeks>>
    /\ WindowRest

\* FakturatorWindow.handle_playwright_status, lines 671-726: whatever the status
\* and the answers, the handler ends with set_action_buttons_enabled(True) (lines
\* 777-787), which enables the start button and disables the stop button
HandlePlaywrightStatus ==
    /\ pc = "window"
    /\ posted # <<>>
    /\ Head(posted) = "status"
    /\ posted' = Tail(posted)
    /\ startEnabled' = TRUE
    /\ stopEnabled' = FALSE
    /\ UNCHANGED <<threadRef, workers, statusPending, weeksSpinbox, saveCombo,
                   settingsWeeks>>
    /\ WindowRest

WindowNext ==
    \/ SetWeeks
    \/ ClickStart
    \/ ClickStop
    \/ WorkerEnd
    \/ DownloadFinished
    \/ CheckPlaywrightInstallation
    \/ StatusThreadEnd
    \/ HandlePlaywrightStatus

SpecWindow == WindowInit /\ [][WindowNext]_vars

\* the event loop delivers every queued signal, a status thread ends, a harvest ends
SpecWindowLive ==
    /\ SpecWindow
    /\ WF_vars(WorkerEnd)
    /\ WF_vars(DownloadFinished)
    /\ WF_vars(StatusThreadEnd)
    /\ WF_vars(HandlePlaywrightStatus)

\* C37: once every harvest worker started so far has ended (returned, raised or
\* terminated by a stop), the window eventually has the start button enabled and
\* the stop button disabled
C37_StartControlReturns ==
    (workers # <<>> /\ Running = {}) ~> (startEnabled /\ ~stopEnabled)

\* C38: at most one harvest worker is running in every reachable state
C38_AtMostOneWorker == Cardinality(Running) <= 1

\* C39: a run started right after the configuration was saved, and which came to
\* the planner, planned as many week ranges as the weeks spinbox showed
C39_SavedWeeksReachPlanner ==
    \A w \in DOMAIN workers :
        (workers[w].saved /\ workers[w].planner # "none")
            => (workers[w].planner = "returned" /\ workers[w].ranges = workers[w].spin)

====
